---- MODULE Spec2Model ----
(***************************************************************************)
(* The watch engine of kubefuzz (src/src/k8s/resources.rs): one coordinator *)
(* task and one watch_typed task per resource kind for every call of        *)
(* watch_resources, all sending batches of K8sItem on one skim channel.     *)
(* main.rs calls watch_resources once per cluster context.                  *)
(*                                                                         *)
(* A raw API object is modelled by what make_item reads from it: its       *)
(* metadata.namespace (an Option), its name and the status string its      *)
(* kind's status_fn returns.  The age is carried through untouched by the  *)
(* engine and is left out of the item.                                     *)
(***************************************************************************)
EXTENDS Integers, Sequences, FiniteSets, TLC

\* ---------------------------------------------------------------- bounds

\* Most items of a selection handed to action_delete.
MaxItems == 11

\* Most replicas, ready or desired, of a workload whose status is a ratio.
MaxReplicas == 11

\* Most containers, and most init containers, of a pod.
MaxContainers == 2

\* Most selector sessions of one process in single-cluster mode.
MaxSessions == 2

\* Most batches the watchers place on the channel (the coordinator's batches
\* are not counted: a full channel never holds the coordinator back).
MaxOut == 1

\* The stream errors of a run.
MaxErrs == 1

\* ------------------------------------------------- items.rs: StatusHealth

StartsWith(s, p) == Len(s) >= Len(p) /\ SubSeq(s, 1, Len(p)) = p

Contains(s, ch) == \E i \in 1..Len(s) : SubSeq(s, i, i) = ch

\* s.find(ch): the position of the first ch at or after i, 0 when none.
RECURSIVE Find(_, _, _)
Find(s, ch, i) ==
    IF i > Len(s) THEN 0
    ELSE IF SubSeq(s, i, i) = ch THEN i
    ELSE Find(s, ch, i + 1)

\* Faulty variant: no split at all.
Splitn2Whole(s, ch) == <<s>>

\* s.splitn(2, ch): the text before the first ch and the text after it, or
\* the whole string when it holds no ch.
Splitn2(s, ch) ==
    IF Find(s, ch, 1) = 0
    THEN <<s>>
    ELSE <<SubSeq(s, 1, Find(s, ch, 1) - 1),
           SubSeq(s, Find(s, ch, 1) + 1, Len(s))>>

CriticalExact ==
    {"Failed", "Error", "OOMKilled", "NotReady", "Lost", "Evicted", "BackOff"}

CriticalPrefix ==
    {"CrashLoop", "ErrImage", "ImagePull", "Init:Error", "Init:ErrImage",
     "Init:ImagePull", "Failed("}

\* Faulty variant: the arm without "Unknown".
WarningExactKnown == {"Pending", "Terminating", "ContainerCreating"}

WarningExact == {"Pending", "Terminating", "ContainerCreating", "Unknown"}

HealthyExact ==
    {"Running", "Active", "Bound", "Complete", "Succeeded", "Ready",
     "Scheduled", "ClusterIP", "NodePort", "LoadBalancer"}

\* Faulty variant: the "Init:" arm ahead of the critical prefixes.
classifyInitFirst(status) ==
    IF status \in CriticalExact THEN "Critical"
    ELSE IF StartsWith(status, "Init:") THEN "Warning"
    ELSE IF \E p \in CriticalPrefix : StartsWith(status, p) THEN "Critical"
    ELSE IF status \in WarningExact THEN "Warning"
    ELSE IF status = "[DELETED]" THEN "Unknown"
    ELSE IF status \in HealthyExact THEN "Healthy"
    ELSE IF StartsWith(status, "Active(") THEN "Healthy"
    ELSE IF Contains(status, "/")
         THEN LET parts == Splitn2(status, "/")
              IN  IF Len(parts) = 2 /\ parts[1] = parts[2]
                  THEN "Healthy" ELSE "Warning"
    ELSE "Healthy"

\* StatusHealth::classify: the match arms in source order.
classify(status) ==
    IF status \in CriticalExact THEN "Critical"
    ELSE IF \E p \in CriticalPrefix : StartsWith(status, p) THEN "Critical"
    ELSE IF status \in WarningExact THEN "Warning"
    ELSE IF StartsWith(status, "Init:") THEN "Warning"
    ELSE IF status = "[DELETED]" THEN "Unknown"
    ELSE IF status \in HealthyExact THEN "Healthy"
    ELSE IF StartsWith(status, "Active(") THEN "Healthy"
    ELSE IF Contains(status, "/")
         THEN LET parts == Splitn2(status, "/")
              IN  IF Len(parts) = 2 /\ parts[1] = parts[2]
                  THEN "Healthy" ELSE "Warning"
    ELSE "Healthy"

\* StatusHealth::priority
priority(health) ==
    [Critical |-> 0, Warning |-> 1, Unknown |-> 1, Healthy |-> 2][health]

\* StatusHealth::color
color(health) ==
    [Critical |-> "Red", Warning |-> "Yellow", Healthy |-> "Green",
     Unknown |-> "DarkGray"][health]

\* K8sItem::status_color
status_color(status) == color(classify(status))

\* derive(Debug) on StatusHealth: the name of the variant.
DebugName(health) ==
    [Critical |-> "Critical", Warning |-> "Warning", Healthy |-> "Healthy",
     Unknown |-> "Unknown"][health]

\* The status the enum's documentation names first for each variant.
canonical_status(health) ==
    [Critical |-> "CrashLoopBackOff", Warning |-> "Pending",
     Healthy |-> "Running", Unknown |-> "[DELETED]"][health]

\* Faulty variant: a rule of its own for ratios, beside the classification.
status_priority_by_text(status) ==
    IF Contains(status, "/") THEN 1 ELSE priority(classify(status))

\* resources.rs: status_priority
status_priority(status) == priority(classify(status))

\* ------------------------------------------- sort_by_key(Reverse(priority))

\* Faulty variant: the key order without Reverse.
ReverseLessAscending(a, b) == a < b

\* Ord of std::cmp::Reverse<u8>: Reverse(a) < Reverse(b) iff a > b.
ReverseLess(a, b) == a > b

\* One insertion of the stable sort: x goes behind every item whose key is
\* not greater than its own.
\* Faulty variant: no sort, items stay in arrival order.
InsertAtEnd(sorted, x) == Append(sorted, x)

RECURSIVE InsertByKey(_, _)
InsertByKey(sorted, x) ==
    IF sorted = <<>> THEN <<x>>
    ELSE IF ReverseLess(status_priority(x.status),
                        status_priority(Head(sorted).status))
         THEN <<x>> \o sorted
         ELSE <<Head(sorted)>> \o InsertByKey(Tail(sorted), x)

\* slice::sort_by_key(|item| Reverse(status_priority(item.status()))): stable.
RECURSIVE SortByKey(_)
SortByKey(items) ==
    IF items = <<>> THEN <<>>
    ELSE InsertByKey(SortByKey(SubSeq(items, 1, Len(items) - 1)),
                     items[Len(items)])

\* ------------------------------------------------------------ the inputs

\* The objects a kind's watch stream may deliver: metadata.namespace,
\* name and status_fn(r).
RawObjects(kind) ==
    CASE kind = "pod" ->
            {[namespace |-> <<"default">>, name |-> "web-1",
              status |-> "Pending"],
             [namespace |-> <<"default">>, name |-> "web-2",
              status |-> "CrashLoopBackOff"]}
      [] kind = "deploy" ->
            {[namespace |-> <<"prod">>, name |-> "api", status |-> "1/1"]}

\* Faulty variant: the status is the extractor's whatever deleted says.
make_item_of_status_fn(r, kind, deleted, context) ==
    [kind      |-> kind,
     namespace |-> IF r.namespace = <<>> THEN "" ELSE r.namespace[1],
     name      |-> r.name,
     status    |-> r.status,
     context   |-> context]

\* make_item(r, kind, status_fn, deleted, context); the namespace is
\* r.meta().namespace.clone().unwrap_or_default().
make_item(r, kind, deleted, context) ==
    [kind      |-> kind,
     namespace |-> IF r.namespace = <<>> THEN "" ELSE r.namespace[1],
     name      |-> r.name,
     status    |-> IF deleted THEN "[DELETED]" ELSE r.status,
     context   |-> context]

\* ---------------------------------------------------------------- state

VARIABLES
    contexts,        \* the contexts main.rs calls watch_resources for (labels)
    kinds,           \* the kinds each call watches
    rxOpen,          \* the consumer (skim) still holds the receiver
    out,             \* the batches placed on the channel, oldest first
    cpc,             \* per context: where its coordinator task stands
    global_init,     \* per context: the shared buffer behind the mutex
    done_count,      \* per context: the AtomicUsize
    permit,          \* per context: the Notify holds a stored permit
    wpc,             \* per watcher: where watch_typed stands
    init_batch,      \* per watcher: its local buffer
    in_init,         \* per watcher
    first_init_done, \* per watcher
    finished,        \* per watcher: the local read back from fetch_add
    handed,          \* per watcher: <<items>> once its first InitDone moved items to global_init
    listing,         \* per watcher: what its stream delivered in the listing cycle under way
    result,          \* per watcher: what watch_typed returned
    returned,        \* per context: watch_resources has returned
    mode,            \* "single" (run_single_context) or "all" (run_all_contexts)
    client,          \* per context: where build_client_for_context stands
    call,            \* the call of a pure function under study, and its result
    watch_errors,    \* the "watch error" lines written to stderr
    past             \* run_single_context: the selector sessions that ended, oldest first

vars == <<contexts, kinds, rxOpen, out, cpc, global_init, done_count,
          permit, wpc, init_batch, in_init, first_init_done, finished, handed,
          listing,
          result, returned, mode, client, call, watch_errors, past>>

coordVars == <<cpc, global_init, done_count, permit>>
localVars == <<init_batch, in_init, first_init_done, finished, handed,
               listing>>
constVars == <<contexts, kinds, mode, client, call, past>>

Watchers == contexts \X kinds
WatchersOf(c) == {c} \X kinds

\* Faulty variant: the count of one kind whatever the kinds.
total_watchers_of_one == Cardinality({CHOOSE k \in kinds : TRUE})

\* total_watchers = kinds.len()
total_watchers == Cardinality(kinds)

\* ----------------------------------------------------------------- Init

\* No pure function is under study.
NoCall == [op |-> "none"]

\* A listing cycle that has just begun: nothing listed yet; dropped tells,
\* until the next listed object or the end of the listing, whether the
\* Init that began it cut short a listing that held objects.
OpenListing(dropped) == [open |-> TRUE, objs |-> <<>>, dropped |-> dropped]

\* No listing cycle is under way.
ClosedListing == [open |-> FALSE, objs |-> <<>>, dropped |-> FALSE]

\* The stream delivers object r as part of a listing.
Listed(l, r) ==
    IF l.open THEN [l EXCEPT !.objs = Append(@, r), !.dropped = FALSE] ELSE l

\* What one call of watch_resources per context of all constructs, before
\* any task has run.
InitTasks(all, ks) ==
    /\ kinds = ks
    /\ rxOpen = TRUE
    /\ out = <<>>
    /\ cpc = [c \in all |-> "spawned"]
    /\ global_init = [c \in all |-> <<>>]
    /\ done_count = [c \in all |-> 0]
    /\ permit = [c \in all |-> FALSE]
    /\ wpc = [w \in all \X ks |-> "loop"]
    /\ init_batch = [w \in all \X ks |-> <<>>]
    /\ in_init = [w \in all \X ks |-> TRUE]
    /\ first_init_done = [w \in all \X ks |-> FALSE]
    /\ finished = [w \in all \X ks |-> 0]
    /\ handed = [w \in all \X ks |-> <<>>]
    /\ listing = [w \in all \X ks |-> OpenListing(FALSE)]
    /\ result = [w \in all \X ks |-> "running"]
    /\ returned = [c \in all |-> FALSE]

\* The label passed as context is "" in single-cluster mode only.
ModeOf(all) == IF all = {""} THEN "single" ELSE "all"

\* Every context's client resolved and watch_resources was called for it.
InitRun(ctxs, ks) ==
    /\ contexts = ctxs
    /\ mode = ModeOf(ctxs)
    /\ client = [c \in ctxs |-> "ok"]
    /\ call = NoCall
    /\ past = <<>>
    /\ watch_errors = 0
    /\ InitTasks(ctxs, ks)

\* run_single_context: one call, context label "".
Init == \E ks \in {{"pod"}, {"pod", "deploy"}} : InitRun({""}, ks)

\* run_all_contexts: one call per context of the kubeconfig.
InitAll == InitRun({"ctx-a", "ctx-b"}, {"deploy"})

\* ------------------------------------------------------------- the channel

Batch(by, c, items) == [by |-> by, ctx |-> c, items |-> items]

\* The batches on the channel that watchers placed there.
WatcherBatches ==
    Cardinality({i \in 1..Len(out) : out[i].by # "coordinator"})

\* Faulty variant: the handler breaks out of the loop after every send.
SendThenBreak(w, batch, buf, ini) ==
    /\ wpc' = [wpc EXCEPT ![w] = "exited"]
    /\ result' = [result EXCEPT ![w] = "Ok"]
    /\ init_batch' = [init_batch EXCEPT ![w] = <<>>]
    /\ in_init' = [in_init EXCEPT ![w] = FALSE]
    /\ first_init_done' = [first_init_done EXCEPT ![w] = FALSE]
    /\ IF rxOpen
       THEN WatcherBatches < MaxOut /\ out' = Append(out, batch)
       ELSE UNCHANGED out

\* tx.send(batch) of a watcher, and the rest of its handler.  Ok places the
\* batch and the handler leaves the local buffer as buf and in_init as ini.
\* Err (receiver dropped) breaks out of the loop: watch_typed returns Ok(())
\* and its locals go out of scope.
SendOrBreak(w, batch, buf, ini) ==
    IF rxOpen
    THEN /\ WatcherBatches < MaxOut
         /\ out' = Append(out, batch)
         /\ init_batch' = [init_batch EXCEPT ![w] = buf]
         /\ in_init' = [in_init EXCEPT ![w] = ini]
         /\ UNCHANGED <<wpc, result, first_init_done>>
    ELSE /\ wpc' = [wpc EXCEPT ![w] = "exited"]
         /\ result' = [result EXCEPT ![w] = "Ok"]
         /\ init_batch' = [init_batch EXCEPT ![w] = <<>>]
         /\ in_init' = [in_init EXCEPT ![w] = FALSE]
         /\ first_init_done' = [first_init_done EXCEPT ![w] = FALSE]
         /\ UNCHANGED out

\* ---------------------------------------------------------- coordinator

\* Faulty variant: the first poll waits whatever the Notify holds.
CoordPollForgets(c) ==
    /\ cpc[c] = "spawned"
    /\ cpc' = [cpc EXCEPT ![c] = "waiting"]
    /\ UNCHANGED <<constVars, watch_errors, rxOpen, out, global_init, done_count, permit,
                   wpc, localVars, result, returned>>

\* First poll of the select!: notified() takes a stored permit at once,
\* otherwise the task waits on the Notify and on the 8 s sleep.
CoordPoll(c) ==
    /\ cpc[c] = "spawned"
    /\ IF permit[c]
       THEN /\ permit' = [permit EXCEPT ![c] = FALSE]
            /\ cpc' = [cpc EXCEPT ![c] = "woken"]
       ELSE /\ cpc' = [cpc EXCEPT ![c] = "waiting"]
            /\ UNCHANGED permit
    /\ UNCHANGED <<constVars, watch_errors, rxOpen, out, global_init, done_count, wpc,
                   localVars, result, returned>>

\* Faulty variant: a select! without the sleep branch.
TimeoutNever(c) == FALSE /\ UNCHANGED vars

\* tokio::time::sleep(Duration::from_secs(8)) completes first.
Timeout(c) ==
    /\ cpc[c] = "waiting"
    /\ cpc' = [cpc EXCEPT ![c] = "woken"]
    /\ UNCHANGED <<constVars, watch_errors, rxOpen, out, global_init, done_count, permit,
                   wpc, localVars, result, returned>>

\* Faulty variant: the send without the is_empty test.
CoordBatchesUnchecked(c, sorted) == <<Batch("coordinator", c, sorted)>>

\* What the coordinator puts on the channel for a drained buffer.
CoordBatches(c, sorted) ==
    IF sorted # <<>> THEN <<Batch("coordinator", c, sorted)>> ELSE <<>>

\* The pending listings: the local buffers of the watchers of c, which the
\* coordinator has no access to.
RECURSIVE ConcatLocal(_)
ConcatLocal(S) ==
    IF S = {} THEN <<>>
    ELSE LET w == CHOOSE x \in S : TRUE
         IN  init_batch[w] \o ConcatLocal(S \ {w})

\* Faulty variant: the drain also takes what watchers have not handed over.
LockedBufferAndLocals(c) == global_init[c] \o ConcatLocal(WatchersOf(c))

\* let mut buf = global_init_coord.lock(): what the coordinator sorts and
\* drains is the shared buffer as it stands under the lock.
LockedBuffer(c) == global_init[c]

\* After the select!: lock, sort, drain, send if non-empty (result ignored).
CoordSend(c) ==
    /\ cpc[c] = "woken"
    /\ LET sorted == SortByKey(LockedBuffer(c))
       IN  /\ global_init' = [global_init EXCEPT ![c] = <<>>]
           /\ out' = IF rxOpen THEN out \o CoordBatches(c, sorted) ELSE out
    /\ cpc' = [cpc EXCEPT ![c] = "done"]
    /\ UNCHANGED <<constVars, watch_errors, rxOpen, done_count, permit, wpc,
                   localVars, result, returned>>

\* ------------------------------------------------------------ watch_typed

\* Faulty variant: Init keeps what the buffer holds.
OnInitKeeps(w) ==
    /\ wpc[w] = "loop"
    /\ in_init' = [in_init EXCEPT ![w] = TRUE]
    /\ listing' = [listing EXCEPT
                      ![w] = OpenListing(@.open /\ @.objs # <<>>)]
    /\ UNCHANGED <<constVars, watch_errors, rxOpen, out, coordVars, wpc, first_init_done,
                   init_batch, finished, handed, result, returned>>

\* Event::Init
OnInit(w) ==
    /\ wpc[w] = "loop"
    /\ init_batch' = [init_batch EXCEPT ![w] = <<>>]
    /\ in_init' = [in_init EXCEPT ![w] = TRUE]
    /\ listing' = [listing EXCEPT
                      ![w] = OpenListing(@.open /\ @.objs # <<>>)]
    /\ UNCHANGED <<constVars, watch_errors, rxOpen, out, coordVars, wpc, first_init_done,
                   finished, handed, result, returned>>

\* Faulty variant: InitApply buffers the item whatever in_init says.
OnInitApplyBuffersAlways(w, r) ==
    /\ wpc[w] = "loop"
    /\ \A i \in 1..Len(init_batch[w]) : init_batch[w][i].name # r.name
    /\ init_batch' = [init_batch EXCEPT
                         ![w] = Append(@, make_item(r, w[2], FALSE, w[1]))]
    /\ listing' = [listing EXCEPT ![w] = Listed(@, r)]
    /\ UNCHANGED <<constVars, watch_errors, rxOpen, out, coordVars, wpc, result, in_init,
                   first_init_done, finished, handed, returned>>

\* Event::InitApply(r).  A listing holds an object once.
OnInitApply(w, r) ==
    /\ wpc[w] = "loop"
    /\ LET item == make_item(r, w[2], FALSE, w[1])
       IN  IF in_init[w]
           THEN /\ \A i \in 1..Len(init_batch[w]) :
                       init_batch[w][i].name # r.name
                /\ init_batch' = [init_batch EXCEPT ![w] = Append(@, item)]
                /\ listing' = [listing EXCEPT ![w] = Listed(@, r)]
                /\ UNCHANGED <<out, wpc, result, in_init, first_init_done>>
           ELSE /\ SendOrBreak(w, Batch("InitApply", w[1], <<item>>),
                               init_batch[w], in_init[w])
                /\ listing' = [listing EXCEPT
                                  ![w] = IF rxOpen THEN Listed(@, r)
                                         ELSE ClosedListing]
    /\ UNCHANGED <<constVars, watch_errors, rxOpen, coordVars, finished, handed, returned>>

\* Faulty variant: every InitDone takes the first-init branch.
IsReconnectNever(w) == FALSE

\* if first_init_done { reconnect branch } else { first-init branch }
IsReconnect(w) == first_init_done[w]

\* Faulty variant: the hand-over replaces the shared buffer.
ExtendGlobalOverwrite(buf, items) == items

\* buf.extend(init_batch.drain(..)) under the lock
ExtendGlobal(buf, items) == buf \o items

\* Faulty variant: the reconnect branch sends whatever it drained.
ReconnectSendsAlways(sorted) == TRUE

\* if !sorted.is_empty() && tx.send(sorted).is_err(): the send is tried for
\* a non-empty batch only.
ReconnectSends(sorted) == sorted # <<>>

\* Event::InitDone.  The reconnect branch runs to the end of the handler in
\* this step; the first-init branch does its locked extend here and goes on
\* in FetchAdd and NotifyOne.
OnInitDone(w) ==
    /\ wpc[w] = "loop"
    /\ IF IsReconnect(w)
       THEN LET sorted == SortByKey(init_batch[w])
            IN  /\ IF ReconnectSends(sorted)
                   THEN SendOrBreak(w, Batch("InitDone", w[1], sorted),
                                    <<>>, FALSE)
                   ELSE /\ in_init' = [in_init EXCEPT ![w] = FALSE]
                        /\ UNCHANGED <<out, wpc, result, init_batch,
                                       first_init_done>>
                /\ UNCHANGED <<global_init, handed>>
       ELSE /\ global_init' = [global_init EXCEPT
                                 ![w[1]] = ExtendGlobal(@, init_batch[w])]
            /\ handed' = [handed EXCEPT ![w] = <<init_batch[w]>>]
            /\ init_batch' = [init_batch EXCEPT ![w] = <<>>]
            /\ wpc' = [wpc EXCEPT ![w] = "fetch_add"]
            /\ UNCHANGED <<out, result, in_init, first_init_done>>
    /\ listing' = [listing EXCEPT ![w] = ClosedListing]
    /\ UNCHANGED <<constVars, watch_errors, rxOpen, cpc, done_count, permit, finished,
                   returned>>

\* let finished = done_count.fetch_add(1, SeqCst) + 1
FetchAdd(w) ==
    /\ wpc[w] = "fetch_add"
    /\ done_count' = [done_count EXCEPT ![w[1]] = @ + 1]
    /\ finished' = [finished EXCEPT ![w] = done_count[w[1]] + 1]
    /\ wpc' = [wpc EXCEPT ![w] = "notify"]
    /\ UNCHANGED <<constVars, watch_errors, rxOpen, out, cpc, global_init, permit,
                   init_batch, in_init, first_init_done, handed, listing,
                   result, returned>>

\* Faulty variant: every watcher that finishes signals.
LastToFinishAny(n) == n >= 1

\* finished >= total_watchers
LastToFinish(n) == n >= total_watchers

\* if finished >= total_watchers { all_init_done.notify_one() }: a waiting
\* coordinator is woken, otherwise the Notify keeps one permit.  Then
\* first_init_done = true and in_init = false end the handler.
NotifyOne(w) ==
    /\ wpc[w] = "notify"
    /\ IF LastToFinish(finished[w])
       THEN IF cpc[w[1]] = "waiting"
            THEN /\ cpc' = [cpc EXCEPT ![w[1]] = "woken"]
                 /\ UNCHANGED permit
            ELSE /\ permit' = [permit EXCEPT ![w[1]] = TRUE]
                 /\ UNCHANGED cpc
       ELSE UNCHANGED <<cpc, permit>>
    /\ first_init_done' = [first_init_done EXCEPT ![w] = TRUE]
    /\ in_init' = [in_init EXCEPT ![w] = FALSE]
    /\ finished' = [finished EXCEPT ![w] = 0]
    /\ wpc' = [wpc EXCEPT ![w] = "loop"]
    /\ UNCHANGED <<constVars, watch_errors, rxOpen, out, global_init, done_count,
                   init_batch, handed, listing, result, returned>>

\* Faulty variant: an Apply during a listing waits in the local buffer.
OnApplyHeldInInit(w, r) ==
    /\ wpc[w] = "loop"
    /\ IF in_init[w]
       THEN /\ init_batch' = [init_batch EXCEPT
                                 ![w] = Append(@, make_item(r, w[2], FALSE,
                                                            w[1]))]
            /\ UNCHANGED <<out, wpc, result, in_init, first_init_done,
                           listing>>
       ELSE /\ SendOrBreak(w, Batch("Apply", w[1],
                                    <<make_item(r, w[2], FALSE, w[1])>>),
                           init_batch[w], in_init[w])
            /\ listing' = [listing EXCEPT
                              ![w] = IF rxOpen THEN @ ELSE ClosedListing]
    /\ UNCHANGED <<constVars, watch_errors, rxOpen, coordVars, finished, handed, returned>>

\* Event::Apply(r)
OnApply(w, r) ==
    /\ wpc[w] = "loop"
    /\ SendOrBreak(w, Batch("Apply", w[1],
                            <<make_item(r, w[2], FALSE, w[1])>>),
                   init_batch[w], in_init[w])
    /\ listing' = [listing EXCEPT
                      ![w] = IF rxOpen THEN @ ELSE ClosedListing]
    /\ UNCHANGED <<constVars, watch_errors, rxOpen, coordVars, finished, handed, returned>>

\* Event::Delete(r)
OnDelete(w, r) ==
    /\ wpc[w] = "loop"
    /\ SendOrBreak(w, Batch("Delete", w[1],
                            <<make_item(r, w[2], TRUE, w[1])>>),
                   init_batch[w], in_init[w])
    /\ listing' = [listing EXCEPT
                      ![w] = IF rxOpen THEN @ ELSE ClosedListing]
    /\ UNCHANGED <<constVars, watch_errors, rxOpen, coordVars, finished, handed, returned>>

\* Faulty variant: a stream error ends the watcher.
OnErrBreaks(w) ==
    /\ wpc[w] = "loop"
    /\ watch_errors < MaxErrs
    /\ watch_errors' = watch_errors + 1
    /\ wpc' = [wpc EXCEPT ![w] = "exited"]
    /\ result' = [result EXCEPT ![w] = "Ok"]
    /\ init_batch' = [init_batch EXCEPT ![w] = <<>>]
    /\ in_init' = [in_init EXCEPT ![w] = FALSE]
    /\ first_init_done' = [first_init_done EXCEPT ![w] = FALSE]
    /\ listing' = [listing EXCEPT ![w] = ClosedListing]
    /\ UNCHANGED <<constVars, rxOpen, out, coordVars, finished, handed,
                   returned>>

\* Err(e): eprintln!, and the loop goes on to the next event.
OnErr(w) ==
    /\ wpc[w] = "loop"
    /\ watch_errors < MaxErrs
    /\ watch_errors' = watch_errors + 1
    /\ UNCHANGED <<constVars, rxOpen, out, coordVars, wpc, localVars, result,
                   returned>>

\* for task in tasks { task.await }; Ok(())
Join(c) ==
    /\ ~returned[c]
    /\ \A w \in WatchersOf(c) : wpc[w] = "exited"
    /\ returned' = [returned EXCEPT ![c] = TRUE]
    /\ UNCHANGED <<constVars, watch_errors, rxOpen, out, coordVars, wpc, localVars, result>>

\* skim returns and drops the receiver.
ConsumerClose ==
    /\ rxOpen
    /\ rxOpen' = FALSE
    /\ UNCHANGED <<constVars, watch_errors, out, coordVars, wpc, localVars, result,
                   returned>>

\* ---------------------------------------------------- client resolution

\* main.rs: demo_items(), as kind, namespace, name, status and context.
demo_items ==
    <<[kind |-> "pod", namespace |-> "production",
       name |-> "api-server-7d9f8b6c5-xk2lp",
       status |-> "CrashLoopBackOff", context |-> ""],
      [kind |-> "pod", namespace |-> "staging",
       name |-> "frontend-5c7d8e9f0-ab1cd",
       status |-> "Pending", context |-> ""],
      [kind |-> "pod", namespace |-> "production",
       name |-> "worker-6f8b9c4d7-mn3qr",
       status |-> "Running", context |-> ""],
      [kind |-> "deploy", namespace |-> "production",
       name |-> "api-server",
       status |-> "2/3", context |-> ""],
      [kind |-> "deploy", namespace |-> "staging",
       name |-> "frontend",
       status |-> "0/1", context |-> ""],
      [kind |-> "svc", namespace |-> "production",
       name |-> "api-service",
       status |-> "ClusterIP", context |-> ""],
      [kind |-> "cm", namespace |-> "production",
       name |-> "app-config",
       status |-> "ConfigMap", context |-> ""],
      [kind |-> "secret", namespace |-> "production",
       name |-> "api-tls",
       status |-> "kubernetes.io/tls", context |-> ""],
      [kind |-> "node", namespace |-> "",
       name |-> "kind-control-plane",
       status |-> "Ready", context |-> ""],
      [kind |-> "ns", namespace |-> "",
       name |-> "production",
       status |-> "Active", context |-> ""],
      [kind |-> "ns", namespace |-> "",
       name |-> "staging",
       status |-> "Active", context |-> ""]>>

\* build_client_for_context returns Ok(client): watch_resources is called
\* for the context and its tasks are spawned.
BuildClientOk(c) ==
    /\ client[c] = "resolving"
    /\ client' = [client EXCEPT ![c] = "ok"]
    /\ contexts' = contexts \cup {c}
    /\ UNCHANGED <<watch_errors, past, kinds, mode, call, rxOpen, out, coordVars, wpc, localVars,
                   result, returned>>

\* Faulty variant: a failed resolution ends the process.
BuildClientErrAborts(c) ==
    /\ client[c] = "resolving"
    /\ client' = [client EXCEPT ![c] = "err"]
    /\ rxOpen' = FALSE
    /\ UNCHANGED <<watch_errors, past, contexts, kinds, mode, call, out, coordVars, wpc,
                   localVars, result, returned>>

\* build_client_for_context returns Err(e): eprintln!, and the spawned task
\* ends without calling watch_resources.  run_single_context sends the demo
\* items first (a failed send is logged); run_all_contexts sends nothing.
BuildClientErr(c) ==
    /\ client[c] = "resolving"
    /\ client' = [client EXCEPT ![c] = "err"]
    /\ out' = IF mode = "single" /\ rxOpen
              THEN Append(out, Batch("demo", "", demo_items))
              ELSE out
    /\ UNCHANGED <<watch_errors, past, contexts, kinds, mode, call, rxOpen, coordVars, wpc,
                   localVars, result, returned>>

\* ----------------------------------------------------------------- Next

Next ==
    \/ \E c \in contexts : CoordPoll(c)
    \/ \E c \in contexts : Timeout(c)
    \/ \E c \in contexts : CoordSend(c)
    \/ \E w \in Watchers : OnInit(w)
    \/ \E w \in Watchers : \E r \in RawObjects(w[2]) : OnInitApply(w, r)
    \/ \E w \in Watchers : OnInitDone(w)
    \/ \E w \in Watchers : FetchAdd(w)
    \/ \E w \in Watchers : NotifyOne(w)
    \/ \E w \in Watchers : \E r \in RawObjects(w[2]) : OnApply(w, r)
    \/ \E w \in Watchers : \E r \in RawObjects(w[2]) : OnDelete(w, r)
    \/ \E w \in Watchers : OnErr(w)
    \/ \E c \in contexts : Join(c)
    \/ ConsumerClose

Spec == Init /\ [][Next]_vars

SpecAll == InitAll /\ [][Next]_vars

\* Either mode from the moment the tasks that resolve the clients are
\* spawned: no context has a client yet.
InitClient ==
    \E all \in {{""}, {"ctx-a", "ctx-b"}} :
        /\ contexts = {}
        /\ mode = ModeOf(all)
        /\ client = [c \in all |-> "resolving"]
        /\ call = NoCall
        /\ past = <<>>
    /\ watch_errors = 0
        /\ InitTasks(all, {"deploy"})

NextClient ==
    \/ \E c \in DOMAIN client : BuildClientOk(c)
    \/ \E c \in DOMAIN client : BuildClientErr(c)
    \/ Next

SpecClient == InitClient /\ [][NextClient]_vars

\* ------------------------------------------------- selector sessions

\* The batches on the channel that a coordinator placed there.
CoordinatorBatches ==
    Cardinality({i \in 1..Len(out) : out[i].by = "coordinator"})

\* run_single_context, from the return of Skim::run_with to the spawn of
\* the next iteration: output.is_abort is false, the context is switched
\* (ctrl-x) or the action is dispatched, and the loop starts over with a
\* new channel and a new task that resolves the client and calls
\* watch_resources.  The tasks of the session that ended hold a sender of
\* the dropped channel only.  The session is noted with whether
\* watch_resources was called in it and how many batches its coordinator
\* placed on its channel.
NextSession ==
    /\ mode = "single"
    /\ ~rxOpen
    /\ client[""] # "resolving"
    /\ Len(past) < MaxSessions - 1
    /\ past' = Append(past, [started |-> "" \in contexts,
                             global |-> CoordinatorBatches])
    /\ contexts' = {}
    /\ client' = [client EXCEPT ![""] = "resolving"]
    /\ rxOpen' = TRUE
    /\ out' = <<>>
    /\ cpc' = [c \in {""} |-> "spawned"]
    /\ global_init' = [c \in {""} |-> <<>>]
    /\ done_count' = [c \in {""} |-> 0]
    /\ permit' = [c \in {""} |-> FALSE]
    /\ wpc' = [w \in {""} \X kinds |-> "loop"]
    /\ init_batch' = [w \in {""} \X kinds |-> <<>>]
    /\ in_init' = [w \in {""} \X kinds |-> TRUE]
    /\ first_init_done' = [w \in {""} \X kinds |-> FALSE]
    /\ finished' = [w \in {""} \X kinds |-> 0]
    /\ handed' = [w \in {""} \X kinds |-> <<>>]
    /\ listing' = [w \in {""} \X kinds |-> OpenListing(FALSE)]
    /\ result' = [w \in {""} \X kinds |-> "running"]
    /\ returned' = [c \in {""} |-> FALSE]
    /\ UNCHANGED <<kinds, mode, call, watch_errors>>

\* run_single_context from its first iteration: the task that resolves the
\* client is spawned and no session has ended.
InitSessions ==
    /\ contexts = {}
    /\ mode = "single"
    /\ client = [c \in {""} |-> "resolving"]
    /\ call = NoCall
    /\ past = <<>>
    /\ watch_errors = 0
    /\ InitTasks({""}, {"pod"})

NextSessions ==
    \/ NextSession
    \/ NextClient

SpecSessions == InitSessions /\ [][NextSessions]_vars

\* The first listing cycle of every watcher raced against the deadline: the
\* streams deliver listed objects and the end of the listing, nothing else.
NextListing ==
    \/ \E c \in contexts : CoordPoll(c)
    \/ \E c \in contexts : Timeout(c)
    \/ \E c \in contexts : CoordSend(c)
    \/ \E w \in Watchers : \E r \in RawObjects(w[2]) : OnInitApply(w, r)
    \/ \E w \in Watchers : OnInitDone(w)
    \/ \E w \in Watchers : FetchAdd(w)
    \/ \E w \in Watchers : NotifyOne(w)
    \/ ConsumerClose

\* Tokio runs every spawned task, and the 8 s sleep always completes: the
\* coordinator task is never starved.  Nothing obliges a watch stream to
\* deliver its next event.
CoordStep == \E c \in contexts : CoordPoll(c) \/ Timeout(c) \/ CoordSend(c)

FairSpec == Init /\ [][NextListing]_vars /\ WF_vars(CoordStep)

\* One call of watch_resources for pods, every event of the stream allowed.
InitClose == InitRun({""}, {"pod"})

\* The steps a spawned task takes by itself, without an event of its
\* stream: the coordinator's, the rest of a first InitDone's handler, and
\* the join of watch_resources.
TaskStep(c) ==
    \/ CoordPoll(c) \/ Timeout(c) \/ CoordSend(c)
    \/ \E w \in WatchersOf(c) : FetchAdd(w) \/ NotifyOne(w)
    \/ Join(c)

\* Tokio runs every task that can run.  Nothing obliges a watch stream to
\* deliver a next event: stream.next().await may stay pending for ever.
CloseSpec == InitClose /\ [][Next]_vars /\ WF_vars(TaskStep(""))

\* ------------------------------------------------------ pure functions

\* Every engine variable at rest: no context, no kind, no task.
InitCalls == InitRun({}, {})

\* ResourceKind, by as_str.
ResourceKinds ==
    {"pod", "svc", "deploy", "sts", "ds", "cm", "secret", "ing", "node", "ns",
     "pvc", "job", "cronjob"}

\* ResourceKind::PersistentVolume, the fourteenth kind of the data model.
PersistentVolumeKind == "pv"

\* The namespace the PersistentVolume arm passes to watch_typed.
PvSpawnNamespace(ns) == <<>>

\* Option<&str> of --namespace: <<>> is None, <<n>> is Some(n).
NamespaceArgs == {<<>>, <<"default">>, <<"kube-system">>}

\* Faulty variant: every arm passes the configured namespace.
SpawnNamespaceOfAll(kind, ns) == ns

\* watch_resources, match k: the namespace argument each arm passes on.
SpawnNamespace(kind, ns) ==
    CASE kind \in {"node", "ns"} -> <<>>
      [] kind = PersistentVolumeKind -> PvSpawnNamespace(ns)
      [] OTHER -> ns

\* watch_typed: Api::all(client), narrowed by a field selector on the
\* namespace if one was passed.
watcher_config(namespace) ==
    IF namespace # <<>>
    THEN [fields |-> <<"metadata.namespace=" \o namespace[1]>>]
    ELSE [fields |-> <<>>]

\* One watch task is spawned for kind with --namespace ns.
CallSpawn(kind, ns) ==
    /\ call = NoCall
    /\ call' = [op |-> "spawn", kind |-> kind, namespace |-> ns,
                config |-> watcher_config(SpawnNamespace(kind, ns))]
    /\ UNCHANGED <<watch_errors, past, contexts, kinds, mode, client, rxOpen, out, coordVars, wpc,
                   localVars, result, returned>>

\* ------------------------------------------------------ main.rs: dispatch

\* output.final_key: a key code with its modifiers.
FinalKeys ==
    [code : {"l", "e", "d", "f", "r", "y", "x", "Enter"},
     modifiers : {"CONTROL", "NONE", "ALT"}]

\* output.selected_items after the downcast filter: the selected K8sItems.
Selections == {<<>>, <<"web-1">>, <<"web-1", "api">>}

\* let ctrl = |c| key.code == KeyCode::Char(c) && key.modifiers == CONTROL
ctrl(key, c) == key.code = c /\ key.modifiers = "CONTROL"

\* Faulty variant: the chain without the read_only tests.
dispatchUnguarded(key, items, read_only) ==
    IF items = <<>> THEN "none"
    ELSE IF ctrl(key, "l") THEN "action_logs"
    ELSE IF ctrl(key, "e") THEN "action_exec"
    ELSE IF ctrl(key, "d") THEN "action_delete"
    ELSE IF ctrl(key, "f") THEN "action_portforward"
    ELSE IF ctrl(key, "r") THEN "action_rollout_restart"
    ELSE IF ctrl(key, "y") THEN "action_yaml"
    ELSE "action_describe"

\* dispatch: the action function it invokes, "none" when it invokes none.
dispatch(key, items, read_only) ==
    IF items = <<>> THEN "none"
    ELSE IF ctrl(key, "l") THEN "action_logs"
    ELSE IF ctrl(key, "e")
         THEN IF read_only THEN "none" ELSE "action_exec"
    ELSE IF ctrl(key, "d")
         THEN IF read_only THEN "none" ELSE "action_delete"
    ELSE IF ctrl(key, "f")
         THEN IF read_only THEN "none" ELSE "action_portforward"
    ELSE IF ctrl(key, "r")
         THEN IF read_only THEN "none" ELSE "action_rollout_restart"
    ELSE IF ctrl(key, "y") THEN "action_yaml"
    ELSE "action_describe"

CallDispatch(key, items, read_only) ==
    /\ call = NoCall
    /\ call' = [op |-> "dispatch", key |-> key, items |-> items,
                read_only |-> read_only,
                invoked |-> dispatch(key, items, read_only)]
    /\ UNCHANGED <<watch_errors, past, contexts, kinds, mode, client, rxOpen, out, coordVars, wpc,
                   localVars, result, returned>>

\* ------------------------------------------------ actions.rs: action_delete

\* if count > 10: the bulk guard.
BulkThreshold == 10

\* char::is_whitespace, for the characters a terminal line can hold here.
IsSpace(ch) == ch \in {" ", "\t", "\n", "\r"}

RECURSIVE TrimStart(_)
TrimStart(s) ==
    IF Len(s) > 0 /\ IsSpace(SubSeq(s, 1, 1))
    THEN TrimStart(SubSeq(s, 2, Len(s)))
    ELSE s

RECURSIVE TrimEnd(_)
TrimEnd(s) ==
    IF Len(s) > 0 /\ IsSpace(SubSeq(s, Len(s), Len(s)))
    THEN TrimEnd(SubSeq(s, 1, Len(s) - 1))
    ELSE s

\* str::trim
trim(s) == TrimEnd(TrimStart(s))

\* u8::to_ascii_lowercase of one character.
AsciiLower(ch) ==
    IF Find("ABCDEFGHIJKLMNOPQRSTUVWXYZ", ch, 1) = 0
    THEN ch
    ELSE SubSeq("abcdefghijklmnopqrstuvwxyz",
                Find("ABCDEFGHIJKLMNOPQRSTUVWXYZ", ch, 1),
                Find("ABCDEFGHIJKLMNOPQRSTUVWXYZ", ch, 1))

\* str::eq_ignore_ascii_case
eq_ignore_ascii_case(a, b) ==
    /\ Len(a) = Len(b)
    /\ \A i \in 1..Len(a) :
           AsciiLower(SubSeq(a, i, i)) = AsciiLower(SubSeq(b, i, i))

\* What read_line leaves in the buffer: the line with its line end, "" at
\* end of input; or the read fails.
StdinReads ==
    {[ok |-> TRUE, line |-> l] :
        l \in {"", "\n", "y\n", "Y\n", "y", " y \n", "\tY\r\n", "yes\n",
               "yes", " yes \n", "YES\n", "Yes\n", "ye\n", "yess\n", "n\n",
               "no\n", "y es\n"}}
    \cup {[ok |-> FALSE, line |-> ""]}

\* A selection of n items: pods of namespace default and, at every third
\* place, a cluster-scoped node.
SelectedItems(n) ==
    [i \in 1..n |->
        IF i % 3 = 0
        THEN [kind |-> "node", namespace |-> "", name |-> i]
        ELSE [kind |-> "pod", namespace |-> "default", name |-> i]]

\* The kubectl arguments of one delete.
DeleteArgs(item) ==
    <<"delete", item.kind>>
        \o (IF item.namespace # "" THEN <<"-n", item.namespace>> ELSE <<>>)
        \o <<"--", item.name>>

\* Faulty variant: the bulk guard also takes the short answer.
ConfirmedLoosely(count, line) ==
    \/ trim(line) = "yes"
    \/ eq_ignore_ascii_case(trim(line), "y")

\* The answer read from stdin confirms the delete of count items.
Confirmed(count, line) ==
    IF count > BulkThreshold
    THEN trim(line) = "yes"
    ELSE eq_ignore_ascii_case(trim(line), "y")

\* action_delete(items): what it returns and the kubectl deletes it ran.
\* A failed read and a kubectl that cannot be spawned leave through `?`.
action_delete(items, stdin, spawns) ==
    IF ~stdin.ok THEN [result |-> "Err", commands |-> <<>>]
    ELSE IF ~Confirmed(Len(items), stdin.line)
    THEN [result |-> "Ok", commands |-> <<>>]
    ELSE IF items # <<>> /\ ~spawns
    THEN [result |-> "Err", commands |-> <<>>]
    ELSE [result |-> "Ok",
          commands |-> [i \in 1..Len(items) |-> DeleteArgs(items[i])]]

CallDelete(n, stdin, spawns) ==
    /\ call = NoCall
    /\ call' = [op |-> "action_delete", items |-> SelectedItems(n),
                stdin |-> stdin, spawns |-> spawns,
                returns |-> action_delete(SelectedItems(n), stdin, spawns)]
    /\ UNCHANGED <<watch_errors, past, contexts, kinds, mode, client, rxOpen, out, coordVars, wpc,
                   localVars, result, returned>>

\* ------------------------------------------------- calls of classify

\* Status strings: every exact entry, every prefix bare and extended, the
\* names of the tiers, ratios, what the extractors give for kinds without a
\* health of their own, and unrecognized text.
StatusInputs ==
    CriticalExact \cup WarningExact \cup HealthyExact \cup CriticalPrefix
    \cup {"CrashLoopBackOff", "ErrImagePull", "ErrImageNeverPull",
          "ImagePullBackOff", "Init:ErrImagePull", "Init:ImagePullBackOff",
          "Init:CrashLoopBackOff", "Failed(3)", "Failed(0)",
          "Init:", "Init:0/1", "Init:1/1", "Init:1/3", "Init:2/3",
          "[DELETED]", "Active(0)", "Active(2)",
          "Critical", "Warning", "Healthy",
          "0/0", "1/1", "3/3", "0/1", "0/3", "1/3", "2/3", "10/10", "1/10",
          "", "SomeRandomStatus", "Available", "Released", "Opaque",
          "ConfigMap", "ExternalName", "Suspended", "running", "failed",
          "kubernetes.io/tls", "kubernetes.io/service-account-token",
          "kubernetes.io/dockerconfigjson", "a/b", "a/a", "/", "1/2/3"}

\* format!("{}", n) of a number that is not negative.
RECURSIVE Format(_)
Format(n) ==
    IF n < 10
    THEN SubSeq("0123456789", n + 1, n + 1)
    ELSE Format(n \div 10) \o SubSeq("0123456789", (n % 10) + 1, (n % 10) + 1)

\* deploy_status and its like: format!("{ready}/{desired}").
ratio_status(ready, desired) == Format(ready) \o "/" \o Format(desired)

\* An item of status s is classified, ordered and coloured.
CallClassify(s) ==
    /\ call = NoCall
    /\ call' = [op |-> "classify", status |-> s, tier |-> classify(s),
                priority |-> status_priority(s), color |-> status_color(s),
                of_name |-> classify(DebugName(classify(s))),
                of_canonical |-> classify(canonical_status(classify(s)))]
    /\ UNCHANGED <<watch_errors, past, contexts, kinds, mode, client, rxOpen, out, coordVars, wpc,
                   localVars, result, returned>>

\* A workload with ready of desired replicas is classified by its status.
CallClassifyRatio(ready, desired) ==
    /\ call = NoCall
    /\ call' = [op |-> "classify_ratio", ready |-> ready,
                desired |-> desired,
                status |-> ratio_status(ready, desired),
                tier |-> classify(ratio_status(ready, desired))]
    /\ UNCHANGED <<watch_errors, past, contexts, kinds, mode, client, rxOpen, out, coordVars, wpc,
                   localVars, result, returned>>

\* ------------------------------------- actions.rs: the kubectl actions

\* Most items of a selection handed to an action that runs per item.
MaxSelected == 3

\* The kinds of the selected items, by as_str.
SelectedKinds == {"pod", "svc", "deploy", "sts", "ds", "cm", "node"}

\* A selected item of a kind: a node is cluster-scoped, the cluster label is
\* set for the services.
ItemOfKind(k) ==
    [kind |-> k,
     namespace |-> IF k = "node" THEN "" ELSE "default",
     name |-> k \o "-1",
     context |-> IF k = "svc" THEN "ctx-a" ELSE ""]

\* The selections of at most MaxSelected items.
KindSelections ==
    UNION {[1..n -> {ItemOfKind(k) : k \in SelectedKinds}] :
               n \in 0..MaxSelected}

\* kubectl(item).args(args): the command line that is run.
kubectl(item, args) ==
    <<"kubectl">>
        \o (IF item.context # "" THEN <<"--context", item.context>> ELSE <<>>)
        \o args

\* -n <namespace>, for an item that has one.
NamespaceArgsOf(item) ==
    IF item.namespace # "" THEN <<"-n", item.namespace>> ELSE <<>>

\* What an action returns and the kubectl command lines it ran, each with
\* the place of its item in the selection.
Ran(res, commands) == [result |-> res, commands |-> commands]

\* action_logs(items), from item i on.  spawns: kubectl can be started; if
\* it cannot, status()? leaves the function with the error.
RECURSIVE LogsFrom(_, _, _)
LogsFrom(items, i, spawns) ==
    IF i > Len(items) THEN Ran("Ok", <<>>)
    ELSE IF items[i].kind # "pod" THEN LogsFrom(items, i + 1, spawns)
    ELSE IF ~spawns THEN Ran("Err", <<>>)
    ELSE LET rest == LogsFrom(items, i + 1, spawns)
             line == kubectl(items[i],
                             <<"logs", "--tail=200">>
                                 \o NamespaceArgsOf(items[i])
                                 \o <<"--", items[i].name>>)
         IN  Ran(rest.result,
                 <<[item |-> i, line |-> line]>> \o rest.commands)

\* action_logs
action_logs(items, spawns) == LogsFrom(items, 1, spawns)

\* action_exec(item).  sh and bash: the shell is found in the container and
\* the session ends with success.
action_exec(item, spawns, sh, bash) ==
    LET line(shell) ==
            [item |-> 1,
             line |-> kubectl(item, <<"exec", "-it", item.name>>
                                        \o NamespaceArgsOf(item)
                                        \o <<"--", shell>>)]
    IN  IF item.kind # "pod" THEN Ran("Ok", <<>>)
        ELSE IF ~spawns THEN Ran("Err", <<>>)
        ELSE IF sh THEN Ran("Ok", <<line("/bin/sh")>>)
        ELSE Ran("Ok", <<line("/bin/sh"), line("/bin/bash")>>)

\* What read_port returns: Err (a failed read, text that is no port, port
\* 0), Ok(None) for an empty line without a default, or Ok(Some(port)).
PortReads == {[ok |-> FALSE, port |-> <<>>], [ok |-> TRUE, port |-> <<>>],
              [ok |-> TRUE, port |-> <<8080>>]}

\* action_portforward(item).  local and remote: what the two calls of
\* read_port return; the second has the local port for its default.
action_portforward(item, local, remote, spawns) ==
    IF item.kind \notin {"pod", "svc"} THEN Ran("Ok", <<>>)
    ELSE IF ~local.ok THEN Ran("Err", <<>>)
    ELSE IF local.port = <<>> THEN Ran("Ok", <<>>)
    ELSE IF ~remote.ok THEN Ran("Err", <<>>)
    ELSE IF ~spawns THEN Ran("Err", <<>>)
    ELSE LET to == IF remote.port = <<>> THEN local.port[1]
                   ELSE remote.port[1]
             target == item.kind \o "/" \o item.name
             ports == Format(local.port[1]) \o ":" \o Format(to)
         IN  Ran("Ok",
                 <<[item |-> 1,
                    line |-> kubectl(item, <<"port-forward", target, ports>>
                                               \o NamespaceArgsOf(item))]>>)

\* const RESTARTABLE
RESTARTABLE == {"deploy", "sts", "ds"}

\* Faulty variant: the first item that cannot be restarted ends the action.
RECURSIVE RolloutRestartUntilSkip(_, _, _, _)
RolloutRestartUntilSkip(items, i, spawns, restarted) ==
    IF i > Len(items) THEN Ran("Ok", <<>>)
    ELSE IF items[i].kind \notin RESTARTABLE THEN Ran("Ok", <<>>)
    ELSE IF ~spawns THEN Ran("Err", <<>>)
    ELSE LET rest == RolloutRestartUntilSkip(items, i + 1, spawns, restarted)
             target == items[i].kind \o "/" \o items[i].name
             line(verb) ==
                 [item |-> i,
                  line |-> kubectl(items[i], <<"rollout", verb, target>>
                                                 \o NamespaceArgsOf(items[i]))]
         IN  Ran(rest.result,
                 <<line("restart")>>
                     \o (IF restarted THEN <<line("status")>> ELSE <<>>)
                     \o rest.commands)

\* action_rollout_restart(items), from item i on.  restarted: kubectl
\* rollout restart ends with success, and rollout status follows.
RECURSIVE RolloutRestartFrom(_, _, _, _)
RolloutRestartFrom(items, i, spawns, restarted) ==
    IF i > Len(items) THEN Ran("Ok", <<>>)
    ELSE IF items[i].kind \notin RESTARTABLE
    THEN RolloutRestartFrom(items, i + 1, spawns, restarted)
    ELSE IF ~spawns THEN Ran("Err", <<>>)
    ELSE LET rest == RolloutRestartFrom(items, i + 1, spawns, restarted)
             target == items[i].kind \o "/" \o items[i].name
             line(verb) ==
                 [item |-> i,
                  line |-> kubectl(items[i], <<"rollout", verb, target>>
                                                 \o NamespaceArgsOf(items[i]))]
         IN  Ran(rest.result,
                 <<line("restart")>>
                     \o (IF restarted THEN <<line("status")>> ELSE <<>>)
                     \o rest.commands)

\* action_rollout_restart
action_rollout_restart(items, spawns, restarted) ==
    RolloutRestartFrom(items, 1, spawns, restarted)

\* One of the four actions is run on a selection; exec and port-forward
\* are handed the first item of it.
CallAction(action, items, returns) ==
    /\ call = NoCall
    /\ call' = [op |-> action, items |-> items, returns |-> returns]
    /\ UNCHANGED <<watch_errors, past, contexts, kinds, mode, client, rxOpen,
                   out, coordVars, wpc, localVars, result, returned>>

CallLogs(items, spawns) ==
    CallAction("action_logs", items, action_logs(items, spawns))

CallExec(item, spawns, sh, bash) ==
    CallAction("action_exec", <<item>>, action_exec(item, spawns, sh, bash))

CallPortForward(item, local, remote, spawns) ==
    CallAction("action_portforward", <<item>>,
               action_portforward(item, local, remote, spawns))

CallRolloutRestart(items, spawns, restarted) ==
    CallAction("action_rollout_restart", items,
               action_rollout_restart(items, spawns, restarted))

\* ---------------------------------------------------- status extractors

\* An Option is the empty sequence (None) or a sequence of one value (Some).
None == <<>>

Some(v) == <<v>>

\* Option::unwrap_or / unwrap_or_else
unwrap_or(opt, default) == IF opt = None THEN default ELSE opt[1]

\* ContainerState of a container that waits, with or without a reason.
Waiting(reason) ==
    Some([waiting |-> Some([reason |-> reason]), terminated |-> None])

\* ContainerState of a container that ended, with or without a reason.
Terminated(exit_code, reason) ==
    Some([waiting |-> None,
          terminated |-> Some([exit_code |-> exit_code, reason |-> reason])])

\* ContainerState of a container that runs.
Running == Some([waiting |-> None, terminated |-> None])

\* The states of a container of a pod: none reported, running, waiting
\* with a reason the extractor reports, with one it passes over, or with
\* none, and ended well or badly, with or without a reason.
ContainerStates ==
    {None, Running, Waiting(Some("CrashLoopBackOff")),
     Waiting(Some("ContainerCreating")), Waiting(Some("PodInitializing")),
     Waiting(None), Terminated(0, Some("Completed")),
     Terminated(1, Some("OOMKilled")), Terminated(1, None)}

\* The states of an init container.
InitContainerStates ==
    {Running, Waiting(Some("ErrImagePull")), Waiting(None),
     Terminated(0, Some("Completed")), Terminated(1, Some("Error"))}

\* The lists of at most n container statuses with states in S.
StatusLists(S, n) ==
    UNION {[1..k -> {[state |-> st] : st \in S}] : k \in 0..n}

\* The pods: deleted or not, without a status or with one, whose container
\* and init-container lists are absent or present and whose phase is
\* absent or present.
Pods ==
    [deletion_timestamp : {None, Some("t")},
     status : {None} \cup
         {Some(st) : st \in
             [container_statuses :
                  {None} \cup {Some(l) : l \in
                      StatusLists(ContainerStates, MaxContainers)},
              init_container_statuses :
                  {None} \cup {Some(l) : l \in
                      StatusLists(InitContainerStates, MaxContainers)},
              phase : {None, Some("Running")}]}]

\* Faulty variant: only "ContainerCreating" is passed over.
SkippedReasonsShort == {"ContainerCreating"}

\* The waiting reasons of a container that pod_status passes over.
SkippedReasons == {"ContainerCreating", "PodInitializing"}

\* pod_status, the loop over container_statuses from index i: the status
\* the loop returns with, or None when it runs to its end.
RECURSIVE ContainerLoop(_, _)
ContainerLoop(css, i) ==
    IF i > Len(css) THEN None
    ELSE LET state == css[i].state
         IN  IF state = None THEN ContainerLoop(css, i + 1)
             ELSE IF /\ state[1].waiting # None
                     /\ state[1].waiting[1].reason # None
                     /\ state[1].waiting[1].reason[1] \notin SkippedReasons
                  THEN Some(state[1].waiting[1].reason[1])
             ELSE IF /\ state[1].terminated # None
                     /\ state[1].terminated[1].exit_code # 0
                  THEN Some(unwrap_or(state[1].terminated[1].reason, "Error"))
             ELSE ContainerLoop(css, i + 1)

\* pod_status, the first loop over init_container_statuses from index i.
RECURSIVE InitWaitingLoop(_, _)
InitWaitingLoop(ics, i) ==
    IF i > Len(ics) THEN None
    ELSE LET state == ics[i].state
         IN  IF /\ state # None
                /\ state[1].waiting # None
                /\ state[1].waiting[1].reason # None
             THEN Some("Init:" \o state[1].waiting[1].reason[1])
             ELSE InitWaitingLoop(ics, i + 1)

\* Faulty variant: every init container that ended counts as done.
InitDoneAnyExit(ics) ==
    Cardinality({i \in 1..Len(ics) :
        /\ ics[i].state # None
        /\ ics[i].state[1].terminated # None})

\* pod_status, the init containers that ended with exit code 0.
InitDone(ics) ==
    Cardinality({i \in 1..Len(ics) :
        /\ ics[i].state # None
        /\ ics[i].state[1].terminated # None
        /\ ics[i].state[1].terminated[1].exit_code = 0})

\* pod_status, the block on init_container_statuses.
InitBlock(ics) ==
    LET waiting == InitWaitingLoop(ics, 1)
    IN  IF waiting # None THEN waiting
        ELSE IF InitDone(ics) < Len(ics)
             THEN Some("Init:" \o Format(InitDone(ics)) \o "/"
                               \o Format(Len(ics)))
             ELSE None

\* pod_status
pod_status(pod) ==
    IF pod.deletion_timestamp # None THEN "Terminating"
    ELSE IF pod.status = None THEN "Unknown"
    ELSE LET status == pod.status[1]
             fromContainers ==
                 IF status.container_statuses = None THEN None
                 ELSE ContainerLoop(status.container_statuses[1], 1)
             fromInit ==
                 IF status.init_container_statuses = None THEN None
                 ELSE InitBlock(status.init_container_statuses[1])
         IN  IF fromContainers # None THEN fromContainers[1]
             ELSE IF fromInit # None THEN fromInit[1]
             ELSE unwrap_or(status.phase, "Unknown")

\* The status of one pod is extracted.
CallPodStatus(pod) ==
    /\ call = NoCall
    /\ call' = [op |-> "pod_status", pod |-> pod, status |-> pod_status(pod)]
    /\ UNCHANGED <<watch_errors, past, contexts, kinds, mode, client, rxOpen, out, coordVars, wpc,
                   localVars, result, returned>>

\* The deployments: spec and status absent or present, and in them the
\* replica counts absent or present.
Deployments ==
    [spec : {None} \cup {Some([replicas |-> r]) :
                 r \in {None} \cup {Some(n) : n \in 0..MaxReplicas}},
     status : {None} \cup {Some([ready_replicas |-> r]) :
                 r \in {None} \cup {Some(n) : n \in 0..MaxReplicas}}]

\* Faulty variant: desired defaults to 0, as ready does.
deploy_status_default_zero(d) ==
    ratio_status(unwrap_or(IF d.status = None THEN None
                           ELSE d.status[1].ready_replicas, 0),
                 unwrap_or(IF d.spec = None THEN None
                           ELSE d.spec[1].replicas, 0))

\* deploy_status
deploy_status(d) ==
    LET ready == unwrap_or(IF d.status = None THEN None
                           ELSE d.status[1].ready_replicas, 0)
        desired == unwrap_or(IF d.spec = None THEN None
                             ELSE d.spec[1].replicas, 1)
    IN  ratio_status(ready, desired)

\* The status of one deployment is extracted, classified and ordered.
CallDeployStatus(d) ==
    /\ call = NoCall
    /\ call' = [op |-> "deploy_status", deployment |-> d,
                status |-> deploy_status(d),
                tier |-> classify(deploy_status(d)),
                priority |-> status_priority(deploy_status(d))]
    /\ UNCHANGED <<watch_errors, past, contexts, kinds, mode, client, rxOpen, out, coordVars, wpc,
                   localVars, result, returned>>

\* ------------------------------------------------------ resource filter

\* ALL_KINDS, by as_str, in the order of the array.
ALL_KINDS ==
    <<"pod", "deploy", "sts", "ds", "svc", "ing", "job", "cronjob", "cm",
      "secret", "pvc", "ns", "node">>

\* str::to_lowercase, for text in ASCII.
RECURSIVE to_lowercase(_)
to_lowercase(s) ==
    IF Len(s) = 0 THEN ""
    ELSE AsciiLower(SubSeq(s, 1, 1)) \o to_lowercase(SubSeq(s, 2, Len(s)))

\* The arms of the match in resource_filter: the kind of each alias.
FilterArms ==
    [pod |-> {"pod", "pods", "po"},
     svc |-> {"svc", "service", "services"},
     deploy |-> {"deploy", "deployment", "deployments"},
     sts |-> {"sts", "statefulset", "statefulsets"},
     ds |-> {"ds", "daemonset", "daemonsets"},
     cm |-> {"cm", "configmap", "configmaps"},
     secret |-> {"secret", "secrets"},
     ing |-> {"ing", "ingress", "ingresses"},
     node |-> {"node", "nodes", "no"},
     ns |-> {"ns", "namespace", "namespaces"},
     pvc |-> {"pvc", "persistentvolumeclaim", "persistentvolumeclaims"},
     job |-> {"job", "jobs"},
     cronjob |-> {"cj", "cronjob", "cronjobs"}]

\* Faulty variant: the argument is matched as it was typed.
resource_filter_as_typed(resource) ==
    IF resource = None THEN None
    ELSE IF \E k \in DOMAIN FilterArms : resource[1] \in FilterArms[k]
         THEN Some(<<CHOOSE k \in DOMAIN FilterArms :
                        resource[1] \in FilterArms[k]>>)
         ELSE None

\* Args::resource_filter
resource_filter(resource) ==
    IF resource = None THEN None
    ELSE LET s == to_lowercase(resource[1])
         IN  IF \E k \in DOMAIN FilterArms : s \in FilterArms[k]
             THEN Some(<<CHOOSE k \in DOMAIN FilterArms :
                            s \in FilterArms[k]>>)
             ELSE None

\* char::to_ascii_uppercase of one character.
AsciiUpper(ch) ==
    IF Find("abcdefghijklmnopqrstuvwxyz", ch, 1) = 0
    THEN ch
    ELSE SubSeq("ABCDEFGHIJKLMNOPQRSTUVWXYZ",
                Find("abcdefghijklmnopqrstuvwxyz", ch, 1),
                Find("abcdefghijklmnopqrstuvwxyz", ch, 1))

\* s in capitals.
RECURSIVE Upper(_)
Upper(s) ==
    IF Len(s) = 0 THEN ""
    ELSE AsciiUpper(SubSeq(s, 1, 1)) \o Upper(SubSeq(s, 2, Len(s)))

\* s with a capital first letter.
Capitalized(s) == AsciiUpper(SubSeq(s, 1, 1)) \o SubSeq(s, 2, Len(s))

\* The resource arguments of the command line: none, every alias as it is
\* written, in capitals and capitalized, and text that is no alias.
ResourceArgs ==
    LET aliases == UNION {FilterArms[k] : k \in DOMAIN FilterArms}
    IN  {None}
        \cup {Some(a) : a \in aliases}
        \cup {Some(Upper(a)) : a \in aliases}
        \cup {Some(Capitalized(a)) : a \in aliases}
        \cup {Some(a) : a \in {"", "all", "pv", "persistentvolume", "PV",
                               "pod ", " pods", "p", "podss", "deploys",
                               "endpoints", "svc,pod", "pod/web-1"}}

\* main: the kinds to watch, from the resource argument.
CallResourceFilter(resource) ==
    /\ call = NoCall
    /\ call' = [op |-> "resource_filter", resource |-> resource,
                filter |-> resource_filter(resource),
                kinds |-> unwrap_or(resource_filter(resource), ALL_KINDS)]
    /\ UNCHANGED <<watch_errors, past, contexts, kinds, mode, client, rxOpen, out, coordVars, wpc,
                   localVars, result, returned>>

\* --------------------------------------- actions.rs: the preview mode

\* What the mode file may hold when it is read: what the program writes,
\* and text it never writes.
ModeContents ==
    {"", "0", "1", "2", "3", "7", "08", "+1", "255", "256", "300", "-1",
     "abc", " 1\n", "2\n", "1 2"}

\* The mode file: missing, or present with its content.
ModeFiles == {None} \cup {Some(c) : c \in ModeContents}

\* The mode file as the program leaves it: missing, written by
\* install_preview_toggle or by the toggle script, or left empty by a write
\* that failed after the file was created.
WrittenModeFiles == {None, Some(""), Some("0"), Some("1"), Some("2")}

IsDigit(ch) == Find("0123456789", ch, 1) # 0

\* The number a string of digits stands for.
RECURSIVE DigitsValue(_)
DigitsValue(s) ==
    IF s = "" THEN 0
    ELSE DigitsValue(SubSeq(s, 1, Len(s) - 1)) * 10
             + (Find("0123456789", SubSeq(s, Len(s), Len(s)), 1) - 1)

\* str::parse::<u8>().ok(): an optional "+", then digits, at most 255.
parse_u8(s) ==
    LET digits == IF StartsWith(s, "+") THEN SubSeq(s, 2, Len(s)) ELSE s
    IN  IF digits = "" THEN None
        ELSE IF \E i \in 1..Len(digits) : ~IsDigit(SubSeq(digits, i, i))
        THEN None
        ELSE IF DigitsValue(digits) > 255 THEN None
        ELSE Some(DigitsValue(digits))

\* Faulty variant: the number read, not reduced.
current_preview_mode_unreduced(file) ==
    unwrap_or(IF file = None THEN None ELSE parse_u8(trim(file[1])), 0)

\* current_preview_mode: read_to_string(..).ok().and_then(parse).unwrap_or(0) % 3
current_preview_mode(file) ==
    unwrap_or(IF file = None THEN None ELSE parse_u8(trim(file[1])), 0) % 3

\* How std::fs::write(path, text) ends: the text is written, the file
\* cannot be created (and stays as it was), or it is created, that is
\* emptied, and the write fails.
WriteOutcomes == {"written", "not created", "not written"}

\* install_preview_toggle: the mode file it leaves.  A script that cannot
\* be written ends the function before the mode file is touched.
install_preview_toggle(file, script, mode_write) ==
    IF script # "written" THEN file
    ELSE IF mode_write = "written" THEN Some("0")
    ELSE IF mode_write = "not created" THEN file
    ELSE Some("")

\* The toggle script: n=$(cat mode 2>/dev/null || echo 0);
\* printf $(( (n + 1) % 3 )) > mode.  An empty n counts as 0.
toggle_script(file) ==
    LET n == IF file = None THEN 0 ELSE DigitsValue(file[1])
    IN  Some(Format((n + 1) % 3))

CallCurrentPreviewMode(file) ==
    /\ call = NoCall
    /\ call' = [op |-> "current_preview_mode", file |-> file,
                returns |-> current_preview_mode(file)]
    /\ UNCHANGED <<watch_errors, past, contexts, kinds, mode, client, rxOpen,
                   out, coordVars, wpc, localVars, result, returned>>

CallInstallPreviewToggle(file, script, mode_write) ==
    /\ call = NoCall
    /\ call' = [op |-> "install_preview_toggle", file |-> file,
                script |-> script, mode_write |-> mode_write,
                after |-> install_preview_toggle(file, script, mode_write)]
    /\ UNCHANGED <<watch_errors, past, contexts, kinds, mode, client, rxOpen,
                   out, coordVars, wpc, localVars, result, returned>>

CallToggleScript(file) ==
    /\ call = NoCall
    /\ call' = [op |-> "toggle_script", file |-> file,
                after |-> toggle_script(file)]
    /\ UNCHANGED <<watch_errors, past, contexts, kinds, mode, client, rxOpen,
                   out, coordVars, wpc, localVars, result, returned>>

NextCalls ==
    \/ call = NoCall /\ \E resource \in ResourceArgs :
          CallResourceFilter(resource)
    \/ call = NoCall /\ \E pod \in Pods : CallPodStatus(pod)
    \/ call = NoCall /\ \E d \in Deployments : CallDeployStatus(d)
    \/ call = NoCall /\ \E s \in StatusInputs : CallClassify(s)
    \/ call = NoCall /\ \E ready \in 0..MaxReplicas :
          \E desired \in 0..MaxReplicas : CallClassifyRatio(ready, desired)
    \/ call = NoCall /\ \E n \in 0..MaxItems : \E stdin \in StdinReads :
          \E spawns \in BOOLEAN : CallDelete(n, stdin, spawns)
    \/ call = NoCall /\ \E key \in FinalKeys : \E items \in Selections :
          \E read_only \in BOOLEAN : CallDispatch(key, items, read_only)
    \/ call = NoCall /\ \E kind \in ResourceKinds \cup {PersistentVolumeKind} :
          \E ns \in NamespaceArgs : CallSpawn(kind, ns)
    \/ call = NoCall /\ \E items \in KindSelections :
          \E spawns \in BOOLEAN : CallLogs(items, spawns)
    \/ call = NoCall /\ \E k \in SelectedKinds :
          \E spawns, sh, bash \in BOOLEAN :
              CallExec(ItemOfKind(k), spawns, sh, bash)
    \/ call = NoCall /\ \E k \in SelectedKinds :
          \E local, remote \in PortReads : \E spawns \in BOOLEAN :
              CallPortForward(ItemOfKind(k), local, remote, spawns)
    \/ call = NoCall /\ \E items \in KindSelections :
          \E spawns, restarted \in BOOLEAN :
              CallRolloutRestart(items, spawns, restarted)
    \/ call = NoCall /\ \E file \in ModeFiles : CallCurrentPreviewMode(file)
    \/ call = NoCall /\ \E file \in WrittenModeFiles :
          \E script, mode_write \in WriteOutcomes :
              CallInstallPreviewToggle(file, script, mode_write)
    \/ call = NoCall /\ \E file \in WrittenModeFiles : CallToggleScript(file)

SpecCalls == InitCalls /\ [][NextCalls]_vars

\* ------------------------------------------------- vocabulary of the claims

Range(s) == {s[i] : i \in 1..Len(s)}

Count(x, s) == Cardinality({i \in 1..Len(s) : s[i] = x})

\* s and t hold the same items the same number of times.
SameBag(s, t) ==
    /\ Len(s) = Len(t)
    /\ \A x \in Range(s) \cup Range(t) : Count(x, s) = Count(x, t)

\* The items watcher w had in its local buffer at its first InitDone.
HandedItems(w) == IF handed[w] = <<>> THEN <<>> ELSE handed[w][1]

RECURSIVE ConcatHanded(_)
ConcatHanded(S) ==
    IF S = {} THEN <<>>
    ELSE LET w == CHOOSE x \in S : TRUE
         IN  HandedItems(w) \o ConcatHanded(S \ {w})

\* Positions of the coordinator's batches of context c on the channel.
CoordIdx(c) ==
    {i \in 1..Len(out) : out[i].by = "coordinator" /\ out[i].ctx = c}

\* The step in which the coordinator of c locks, drains and sends.
CoordSendStep(c) == cpc[c] = "woken" /\ cpc'[c] = "done"

\* This step puts exactly batch b, and nothing else, on the channel.
Puts(b) == out' = Append(out, b)

IsGlobalBatchOf(b, c, items) ==
    b.by = "coordinator" /\ b.ctx = c /\ SameBag(b.items, items)

AllFirstDone(c) == \A w \in WatchersOf(c) : first_init_done[w]

\* Non-increasing priority along a sequence of items.
HealthyFirst(items) ==
    \A i, j \in 1..Len(items) :
        i < j => status_priority(items[i].status)
                     >= status_priority(items[j].status)

Statuses(items) == [i \in 1..Len(items) |-> items[i].status]

\* ------------------------------------------------------------------- C1

\* C1 as stated: when every watcher of a run has processed its first
\* InitDone by the time the coordinator drains, the coordinator sends
\* exactly one batch, holding the union of the handed-over listings.
C1_ExactlyOneBatch ==
    [][\A c \in contexts :
          (CoordSendStep(c) /\ rxOpen /\ AllFirstDone(c))
              => /\ CoordIdx(c) = {}
                 /\ Len(out') = Len(out) + 1
                 /\ IsGlobalBatchOf(out'[Len(out')], c,
                                    ConcatHanded(WatchersOf(c)))]_vars

\* C1 amended: when every watcher of a run has processed its first InitDone
\* by the time the coordinator drains, the coordinator sends exactly one
\* batch holding the union (as a multiset) of the handed-over listings if
\* that union is non-empty and no batch if it is empty; a run never sends a
\* second global batch.
C1_UnionOnceIfNonEmpty ==
    [][\A c \in contexts :
          /\ (CoordSendStep(c) /\ rxOpen /\ AllFirstDone(c))
                => LET union == ConcatHanded(WatchersOf(c))
                   IN  IF union = <<>>
                       THEN out' = out
                       ELSE /\ Len(out') = Len(out) + 1
                            /\ Puts(out'[Len(out')])
                            /\ IsGlobalBatchOf(out'[Len(out')], c, union)
          /\ (\E i \in 1..Len(out') : i > Len(out)
                                      /\ out'[i].by = "coordinator"
                                      /\ out'[i].ctx = c)
                => /\ CoordIdx(c) = {}
                   /\ Len(out') = Len(out) + 1]_vars

\* Both watchers of a two-kind run handed a non-empty listing and the one
\* global batch on the channel holds all of it.
C1_Witness ==
    \E c \in contexts :
        /\ Cardinality(kinds) = 2
        /\ cpc[c] = "done"
        /\ \A w \in WatchersOf(c) : HandedItems(w) # <<>>
        /\ \E i \in CoordIdx(c) :
               SameBag(out[i].items, ConcatHanded(WatchersOf(c)))

\* ------------------------------------------------------------------- C2

\* C2 as stated: when some watcher has not handed its listing over by the
\* time the coordinator drains (so the wait ended by the timeout), exactly
\* one batch is emitted.
C2_ExactlyOneBatchAtDeadline ==
    [][\A c \in contexts :
          (CoordSendStep(c) /\ rxOpen /\ ~AllFirstDone(c))
              => Len(out') = Len(out) + 1]_vars

\* C2 amended: when fewer than K watchers have completed at the deadline the
\* coordinator still ends its wait and emits at most one batch: exactly one,
\* holding the listings handed over so far, when the shared buffer is
\* non-empty, and none when it is empty; the coordinator always terminates.
C2_AtMostOneBatchAtDeadline ==
    /\ [][\A c \in contexts :
             (CoordSendStep(c) /\ rxOpen /\ ~AllFirstDone(c))
                 => LET sofar == ConcatHanded(WatchersOf(c))
                    IN  IF sofar = <<>>
                        THEN out' = out
                        ELSE /\ Puts(out'[Len(out')])
                             /\ IsGlobalBatchOf(out'[Len(out')], c, sofar)
                             /\ CoordIdx(c) = {}]_vars
    /\ <>(\A c \in contexts : cpc[c] = "done")

\* The deadline passed with one of two watchers still listing: the global
\* batch holds the other watcher's listing only.
C2_Witness ==
    \E c \in contexts : \E w \in WatchersOf(c) : \E v \in WatchersOf(c) :
        /\ cpc[c] = "done"
        /\ handed[w] = <<>>
        /\ wpc[w] = "loop"
        /\ HandedItems(v) # <<>>
        /\ \E i \in CoordIdx(c) : SameBag(out[i].items, HandedItems(v))

\* ------------------------------------------------------------------- C3

TierNumber(tier) ==
    CASE tier = "Critical" -> 0
      [] tier = "Warning" -> 1
      [] tier = "Unknown" -> 1
      [] tier = "Healthy" -> 2

Names(items) == {items[i].name : i \in 1..Len(items)}

\* C5: when a watcher processes an InitDone that is not its first, it sends
\* its own local buffer, in the same health order, as a batch of its own
\* (nothing when the buffer is empty), and leaves the shared buffer, the
\* counter, the completion signal and every batch already on the channel as
\* they were; no further global batch appears.
C5_ReconnectSendsOwnBatch ==
    [][\A w \in Watchers :
          (first_init_done[w] /\ OnInitDone(w))
              => /\ UNCHANGED <<global_init, done_count, permit, cpc>>
                 /\ \A i \in 1..Len(out) : out'[i] = out[i]
                 /\ IF rxOpen /\ init_batch[w] # <<>>
                    THEN /\ Len(out') = Len(out) + 1
                         /\ out'[Len(out')].by = "InitDone"
                         /\ out'[Len(out')].ctx = w[1]
                         /\ SameBag(out'[Len(out')].items, init_batch[w])
                         /\ HealthyFirst(out'[Len(out')].items)
                    ELSE out' = out]_vars

\* After the global batch a pod watcher listed again and its two pods went
\* out as a batch of its own, behind the global batch.
C5_Witness ==
    \E c \in contexts : \E i \in CoordIdx(c) : \E j \in 1..Len(out) :
        /\ i < j
        /\ out[j].by = "InitDone"
        /\ Statuses(out[j].items) = <<"Pending", "CrashLoopBackOff">>
        /\ global_init[c] = <<>>
        /\ cpc[c] = "done"

\* ------------------------------------------------------------------- C6

\* C6 as stated: no watcher sends a live update (Apply or Delete) for an
\* object it has handed to the shared buffer before the coordinator has sent
\* the global batch.
C6_GlobalBatchPrecedesLive ==
    [][\A w \in Watchers : \A r \in RawObjects(w[2]) :
          (/\ rxOpen
           /\ first_init_done[w]
           /\ r.name \in Names(HandedItems(w))
           /\ OnApply(w, r) \/ OnDelete(w, r))
              => cpc[w[1]] = "done"]_vars

\* ------------------------------------------------------------------- C7

\* C7 as stated: with all contexts watched, the whole process emits at most
\* one global batch, not one per context.
C7_OneGlobalBatchPerProcess ==
    Cardinality({i \in 1..Len(out) : out[i].by = "coordinator"}) <= 1

\* ------------------------------------------------------------------- C8

\* C8: a watcher that has not processed its first InitDone when the
\* coordinator drains contributes nothing to the global batch; the drain
\* ends or fails no task, a watch task is only ever gone after the consumer
\* closed, and a live update of such a watcher still goes out on its own.
C8_LateWatcherAbsentNoError ==
    [][\A c \in contexts : \A w \in WatchersOf(c) :
          /\ (CoordSendStep(c) /\ handed[w] = <<>>)
                => /\ \A i \in (Len(out) + 1)..Len(out') :
                          \A k \in 1..Len(out'[i].items) :
                              out'[i].items[k].kind # w[2]
                   /\ UNCHANGED <<wpc, result>>
          /\ wpc'[w] = "exited" => ~rxOpen /\ result'[w] = "Ok"
          /\ \A r \in RawObjects(w[2]) :
                (/\ cpc[c] = "done"
                 /\ handed[w] = <<>>
                 /\ rxOpen
                 /\ OnApply(w, r))
                    => /\ Puts(Batch("Apply", c,
                                     <<make_item(r, w[2], FALSE, c)>>))
                       /\ wpc'[w] = "loop"]_vars

\* The deadline passed while the pod watcher was still listing: the global
\* batch holds the deployment only, the pod watcher is still running, and
\* its pod arrived afterwards as a live update.
C8_Witness ==
    \E c \in contexts : \E i \in CoordIdx(c) : \E j \in 1..Len(out) :
        /\ rxOpen
        /\ cpc[c] = "done"
        /\ handed[<<c, "pod">>] = <<>>
        /\ init_batch[<<c, "pod">>] # <<>>
        /\ wpc[<<c, "pod">>] = "loop"
        /\ \A k \in 1..Len(out[i].items) : out[i].items[k].kind = "deploy"
        /\ i < j
        /\ out[j].by = "Apply"
        /\ out[j].items[1].kind = "pod"

\* ------------------------------------------------------------------- C9

\* C9: when the shared buffer is empty as the coordinator ends its wait, by
\* the signal or by the timeout, the coordinator sends nothing.
C9_EmptyBufferSendsNothing ==
    [][\A c \in contexts :
          (CoordSendStep(c) /\ global_init[c] = <<>>) => out' = out]_vars

\* The coordinator of a run whose watchers all listed nothing has finished
\* with the consumer still open, and the channel holds no global batch.
C9_Witness ==
    \E c \in contexts :
        /\ cpc[c] = "done"
        /\ rxOpen
        /\ AllFirstDone(c)
        /\ \A w \in WatchersOf(c) : handed[w] = <<<<>>>>
        /\ CoordIdx(c) = {}

\* ------------------------------------------------------------------ C10

\* The handler of this step tries a send: Apply, Delete, an InitApply outside
\* a listing, or a reconnect's InitDone with a non-empty buffer.
TriesSend(w) ==
    \/ \E r \in RawObjects(w[2]) :
          \/ OnApply(w, r)
          \/ OnDelete(w, r)
          \/ ~in_init[w] /\ OnInitApply(w, r)
    \/ first_init_done[w] /\ init_batch[w] # <<>> /\ OnInitDone(w)

\* C10: a watch task leaves its loop exactly when a send fails: a step that
\* ends the loop happens with the consumer closed, in a handler that tries a
\* send, and returns Ok; every handler that tries a send with the consumer
\* closed ends the loop; Init, a buffered InitApply, a first InitDone, a
\* reconnect's InitDone with nothing to send and a stream error never do.
C10_ExitIffSendFails ==
    [][\A w \in Watchers :
          /\ (wpc[w] # "exited" /\ wpc'[w] = "exited")
                => ~rxOpen /\ TriesSend(w) /\ result'[w] = "Ok"
          /\ (wpc[w] = "loop" /\ ~rxOpen /\ TriesSend(w))
                => wpc'[w] = "exited" /\ result'[w] = "Ok"
          /\ (\/ OnInit(w)
              \/ OnErr(w)
              \/ in_init[w] /\ \E r \in RawObjects(w[2]) : OnInitApply(w, r)
              \/ ~first_init_done[w] /\ OnInitDone(w)
              \/ first_init_done[w] /\ init_batch[w] = <<>> /\ OnInitDone(w)
              \/ FetchAdd(w)
              \/ NotifyOne(w))
                => wpc'[w] # "exited" /\ result'[w] = "running"
          /\ result'[w] \in {"running", "Ok"}]_vars

\* The consumer closed, every watch task of a run met a failed send and
\* returned Ok, and watch_resources returned.
C10_Witness ==
    \E c \in contexts :
        /\ ~rxOpen
        /\ returned[c]
        /\ Cardinality(kinds) = 2
        /\ \A w \in WatchersOf(c) : wpc[w] = "exited" /\ result[w] = "Ok"

\* ------------------------------------------------------------------ C11

\* The batches on the channel that carry context c, by their own label or by
\* the label of an item in them.
BatchesOf(c) ==
    {i \in 1..Len(out) :
        \/ out[i].ctx = c
        \/ \E k \in 1..Len(out[i].items) : out[i].items[k].context = c}

\* The step in which the client of c fails to resolve.
ClientFails(c) == client[c] = "resolving" /\ client'[c] = "err"

\* C11 as stated: a context whose client failed to resolve contributes no
\* items to the channel, in either mode.
C11_FailedContextSendsNothing ==
    \A c \in DOMAIN client : client[c] = "err" => BatchesOf(c) = {}

\* C11 amended: a failed client resolution is never fatal: it ends no task,
\* leaves the consumer and every other context's tasks as they were, and no
\* watch task is ever spawned for the failed context.  With all contexts
\* watched the failed context puts nothing on the channel; with a single
\* context the failure puts one batch of demo items on the channel instead.
C11_ClientFailureNotFatal ==
    /\ [](\A c \in DOMAIN client :
             client[c] = "err"
                 => /\ c \notin contexts
                    /\ \A k \in kinds : wpc[<<c, k>>] = "loop"
                    /\ cpc[c] = "spawned"
                    /\ mode = "all" => BatchesOf(c) = {}
                    /\ mode = "single"
                           => \A i \in 1..Len(out) : out[i].by = "demo")
    /\ [][\A c \in DOMAIN client :
             ClientFails(c)
                 => /\ UNCHANGED <<contexts, rxOpen, coordVars, wpc,
                                   localVars, result, returned>>
                    /\ \A d \in DOMAIN client \ {c} : client'[d] = client[d]
                    /\ IF mode = "single" /\ rxOpen
                       THEN Puts(Batch("demo", "", demo_items))
                       ELSE out' = out]_vars

\* With all contexts watched the client of ctx-a failed; the tasks of ctx-b
\* run, its coordinator has sent its global batch and the consumer is open.
C11_Witness ==
    /\ mode = "all"
    /\ client["ctx-a"] = "err"
    /\ client["ctx-b"] = "ok"
    /\ rxOpen
    /\ "ctx-b" \in contexts
    /\ wpc[<<"ctx-b", "deploy">>] = "loop"
    /\ first_init_done[<<"ctx-b", "deploy">>]
    /\ CoordIdx("ctx-b") # {}
    /\ BatchesOf("ctx-a") = {}

\* ------------------------------------------------------------------ C12

C13_NoEmptyBatch ==
    \A i \in 1..Len(out) : Len(out[i].items) >= 1

\* The channel holds a global batch of three items and, behind it, a
\* watcher's batch of one deleted pod.
C13_Witness ==
    \E i, j \in 1..Len(out) :
        /\ i < j
        /\ out[i].by = "coordinator"
        /\ Len(out[i].items) = 3
        /\ out[j].by = "Delete"
        /\ Statuses(out[j].items) = <<"[DELETED]">>

\* ------------------------------------------------------------------ C14

WriteActions ==
    {"action_exec", "action_delete", "action_portforward",
     "action_rollout_restart"}

ReadActions == {"action_describe", "action_logs", "action_yaml"}

\* C14: in read-only mode dispatch invokes none of exec, delete,
\* port-forward and rollout-restart, whatever the final key and the
\* selection; and whenever normal mode would invoke describe, logs or YAML
\* for a key and a selection, read-only mode invokes the same.
C14_ReadOnlyBlocksWrites ==
    call.op = "dispatch"
        => /\ call.read_only => call.invoked \notin WriteActions
           /\ dispatch(call.key, call.items, FALSE) \in ReadActions
                  => dispatch(call.key, call.items, TRUE)
                         = dispatch(call.key, call.items, FALSE)
           /\ call.invoked \in WriteActions \cup ReadActions \cup {"none"}

\* Ctrl-d on a selection of two in read-only mode invoked nothing.
C14_Witness ==
    /\ call.op = "dispatch"
    /\ call.read_only
    /\ call.key = [code |-> "d", modifiers |-> "CONTROL"]
    /\ Len(call.items) = 2
    /\ call.invoked = "none"

\* ------------------------------------------------------------------ C15

\* The lines that are 'yes' once trimmed, and those that are 'y' or 'Y'.
LinesYes == {"yes\n", "yes", " yes \n"}

LinesY == {"y\n", "Y\n", "y", " y \n", "\tY\r\n"}

\* C15: action_delete runs a kubectl delete only after the confirmation that
\* fits the size of the selection: 'yes' after trimming for more than 10
\* items, 'y' or 'Y' for 10 or fewer.  On every other line read, the empty
\* one of end of input included, it runs no delete and returns Ok; a read
\* that fails runs no delete either.
C15_DeleteNeedsConfirmation ==
    call.op = "action_delete"
        => LET n == Len(call.items)
               confirmed ==
                   /\ call.stdin.ok
                   /\ call.stdin.line \in (IF n > 10 THEN LinesYes ELSE LinesY)
           IN  /\ call.returns.commands # <<>> => confirmed
               /\ (call.stdin.ok /\ ~confirmed)
                      => /\ call.returns.commands = <<>>
                         /\ call.returns.result = "Ok"
               /\ (confirmed /\ call.spawns)
                      => /\ Len(call.returns.commands) = n
                         /\ call.returns.result = "Ok"

\* Eleven items and the answer 'y': nothing was deleted, and Ok returned.
C15_Witness ==
    /\ call.op = "action_delete"
    /\ Len(call.items) = 11
    /\ call.stdin = [ok |-> TRUE, line |-> "y\n"]
    /\ call.returns = [result |-> "Ok", commands |-> <<>>]

\* ------------------------------------------------------------------ C16

\* The display colour of each tier.
TierColor(tier) ==
    CASE tier = "Critical" -> "Red"
      [] tier = "Warning" -> "Yellow"
      [] tier = "Healthy" -> "Green"
      [] tier = "Unknown" -> "DarkGray"

\* C16: for every status string, the sort priority is the number of the
\* tier classify gives it (Critical 0, Warning 1, Unknown 1, Healthy 2) and
\* the colour is the colour of that same tier.
C16_PriorityAndColorFollowClassify ==
    call.op = "classify" =>
        /\ call.tier = classify(call.status)
        /\ call.priority = TierNumber(call.tier)
        /\ call.color = TierColor(call.tier)

\* A ratio of unequal parts has been classified Warning, ordered with
\* priority 1 and coloured yellow.
C16_Witness ==
    /\ call.op = "classify"
    /\ call.status = "2/3"
    /\ call.tier = "Warning"
    /\ call.priority = 1
    /\ call.color = "Yellow"

\* ------------------------------------------------------------------ C17

\* s is one or more decimal digits.
IsNumber(s) ==
    /\ Len(s) > 0
    /\ \A i \in 1..Len(s) : Contains("0123456789", SubSeq(s, i, i))

\* s has the form a/b with a and b numbers.
IsNumericRatio(s) ==
    LET i == Find(s, "/", 1)
    IN  /\ i > 0
        /\ IsNumber(SubSeq(s, 1, i - 1))
        /\ IsNumber(SubSeq(s, i + 1, Len(s)))

\* s equals no exact entry and begins with no prefix of a rule.
MatchesNoRule(s) ==
    /\ s \notin CriticalExact \cup WarningExact \cup HealthyExact
    /\ s # "[DELETED]"
    /\ \A p \in CriticalPrefix \cup {"Init:", "Active("} : ~StartsWith(s, p)

\* C17: a status that matches no exact entry and no prefix rule and is not
\* a numeric ratio a/b is classified Healthy.
C17_UnrecognizedIsHealthy ==
    (call.op = "classify" /\ MatchesNoRule(call.status)
                          /\ ~IsNumericRatio(call.status))
        => call.tier = "Healthy"

\* ------------------------------------------------------------------ C18

\* C18: a ratio status a/b is classified Healthy exactly when the numerator
\* equals the denominator, and Warning otherwise.
C18_RatioHealthyIffEqual ==
    call.op = "classify_ratio" =>
        /\ IsNumericRatio(call.status)
        /\ call.tier = IF call.ready = call.desired THEN "Healthy"
                       ELSE "Warning"

\* A workload with all ten of its ten replicas ready has been classified
\* Healthy by its status "10/10".
C18_Witness ==
    /\ call.op = "classify_ratio"
    /\ call.ready = 10
    /\ call.desired = 10
    /\ call.status = "10/10"
    /\ call.tier = "Healthy"

\* ------------------------------------------------------------------ C19

\* The four tiers.
Tiers == {"Critical", "Warning", "Healthy", "Unknown"}

\* The statuses that are critical as a whole.
CriticalEntries ==
    {"Failed", "Error", "OOMKilled", "NotReady", "Lost", "Evicted", "BackOff"}

\* The beginnings that make a status critical.
CriticalBeginnings ==
    {"CrashLoop", "ErrImage", "ImagePull", "Init:Error", "Init:ErrImage",
     "Init:ImagePull", "Failed("}

\* s is Init:n/m with n and m numbers.
IsInitRatio(s) ==
    StartsWith(s, "Init:") /\ IsNumericRatio(SubSeq(s, 6, Len(s)))

\* C19: every status gets exactly one of the four tiers, the same one each
\* time; "[DELETED]" is Unknown, "Running" is Healthy, "Pending",
\* "Terminating", "Unknown" and Init:n/m are Warning, and a critical entry
\* or a status with a critical beginning is Critical, also when it begins
\* with "Init:".
C19_ClassifyTable ==
    call.op = "classify" =>
        LET s == call.status
            t == call.tier
        IN  /\ t \in Tiers
            /\ t = classify(s)
            /\ s = "[DELETED]" => t = "Unknown"
            /\ s = "Running" => t = "Healthy"
            /\ s \in {"Pending", "Terminating", "Unknown"} => t = "Warning"
            /\ IsInitRatio(s) => t = "Warning"
            /\ s \in CriticalEntries => t = "Critical"
            /\ (\E p \in CriticalBeginnings : StartsWith(s, p))
                  => t = "Critical"

\* A status that begins with "Init:" and with the critical "Init:ErrImage"
\* has been classified Critical.
C19_Witness ==
    /\ call.op = "classify"
    /\ call.status = "Init:ErrImagePull"
    /\ call.tier = "Critical"

\* ------------------------------------------------------------------ C20

\* C20 as stated, the string of a tier being the tier's name: classifying
\* the name of the tier a status was given yields that tier again.
C20_TierNameKeepsTier ==
    call.op = "classify" => call.of_name = call.tier

\* C20: classifying the status that stands for a tier ("CrashLoopBackOff",
\* "Pending", "Running", "[DELETED]") yields that tier again, as often as
\* it is repeated; classifying the tier's name does not: "Critical",
\* "Warning" and "Healthy" are Healthy and "Unknown" is Warning.
C20_RepresentativeKeepsTier ==
    call.op = "classify" =>
        /\ call.of_canonical = call.tier
        /\ classify(canonical_status(call.of_canonical)) = call.of_canonical
        /\ call.of_name = IF call.tier = "Unknown" THEN "Warning"
                          ELSE "Healthy"

\* A deleted item has been classified Unknown; "[DELETED]" classifies as
\* Unknown again and the name "Unknown" as Warning.
C20_Witness ==
    /\ call.op = "classify"
    /\ call.status = "[DELETED]"
    /\ call.tier = "Unknown"
    /\ call.of_canonical = "Unknown"
    /\ call.of_name = "Warning"

\* ------------------------------------------------------------------ C21

\* Container i of the list reports a waiting reason that is not passed
\* over.
WaitsWithReason(css, i) ==
    /\ css[i].state # None
    /\ css[i].state[1].waiting # None
    /\ css[i].state[1].waiting[1].reason # None
    /\ css[i].state[1].waiting[1].reason[1]
           \notin {"ContainerCreating", "PodInitializing"}

\* Container i of the list ended with an exit code other than 0.
EndedBadly(css, i) ==
    /\ css[i].state # None
    /\ css[i].state[1].terminated # None
    /\ css[i].state[1].terminated[1].exit_code # 0

\* The containers of the list that decide the status of the pod.
Deciding(css) ==
    {i \in 1..Len(css) : WaitsWithReason(css, i) \/ EndedBadly(css, i)}

\* The init containers alone give the pod a status: one of them waits with
\* a reason, or not all of them ended with exit code 0.
InitDecides(ics) ==
    \/ \E i \in 1..Len(ics) :
          /\ ics[i].state # None
          /\ ics[i].state[1].waiting # None
          /\ ics[i].state[1].waiting[1].reason # None
    \/ \E i \in 1..Len(ics) :
          ~ /\ ics[i].state # None
            /\ ics[i].state[1].terminated # None
            /\ ics[i].state[1].terminated[1].exit_code = 0

\* The status the precedence rules give a pod that is not deleted and has
\* a status st, told against the status r that was returned.
FollowsPrecedence(st, r) ==
    LET css == IF st.container_statuses = None THEN <<>>
               ELSE st.container_statuses[1]
        ics == IF st.init_container_statuses = None THEN <<>>
               ELSE st.init_container_statuses[1]
    IN  IF Deciding(css) # {}
        THEN LET i == CHOOSE j \in Deciding(css) :
                          \A k \in Deciding(css) : j <= k
             IN  IF WaitsWithReason(css, i)
                 THEN r = css[i].state[1].waiting[1].reason[1]
                 ELSE \/ /\ css[i].state[1].terminated[1].reason = None
                         /\ r = "Error"
                      \/ css[i].state[1].terminated[1].reason = <<r>>
        ELSE IF InitDecides(ics)
        THEN StartsWith(r, "Init:") /\ Len(r) > 5
        ELSE \/ st.phase = None /\ r = "Unknown"
             \/ st.phase = <<r>>

\* C21: pod_status gives "Terminating" to a pod with a deletion timestamp,
\* whatever else it holds; otherwise "Unknown" without a status; otherwise
\* what the first deciding container reports; otherwise what the init
\* containers give; otherwise the phase, or "Unknown" without one.
C21_PodStatusPrecedence ==
    call.op = "pod_status" =>
        IF call.pod.deletion_timestamp # None THEN call.status = "Terminating"
        ELSE IF call.pod.status = None THEN call.status = "Unknown"
        ELSE FollowsPrecedence(call.pod.status[1], call.status)

\* A deleted pod whose first container is in CrashLoopBackOff and whose
\* phase is Running was given the status "Terminating".
C21_Witness ==
    /\ call.op = "pod_status"
    /\ call.pod.deletion_timestamp # None
    /\ call.pod.status # None
    /\ call.pod.status[1].container_statuses
          = <<(<<[state |-> Waiting(<<"CrashLoopBackOff">>)]>>)>>
    /\ call.pod.status[1].phase = <<"Running">>
    /\ call.status = "Terminating"

\* ------------------------------------------------------------------ C22

\* C22: deploy_status is the ready count, 0 when the status or the count is
\* absent, then "/", then the desired count, 1 when the spec or the count
\* is absent; with both absent it is "0/1", which is Warning, priority 1.
C22_DeployStatusDefaults ==
    call.op = "deploy_status" =>
        LET d == call.deployment
            noReady == d.status = None \/ d.status[1].ready_replicas = None
            noDesired == d.spec = None \/ d.spec[1].replicas = None
            ready == IF noReady THEN 0 ELSE d.status[1].ready_replicas[1]
            desired == IF noDesired THEN 1 ELSE d.spec[1].replicas[1]
        IN  /\ call.status = Format(ready) \o "/" \o Format(desired)
            /\ (noReady /\ noDesired) =>
                   /\ call.status = "0/1"
                   /\ call.tier = "Warning"
                   /\ call.priority = 1

\* A deployment without spec and without status was given "0/1" and
\* classified Warning with priority 1.
C22_Witness ==
    /\ call.op = "deploy_status"
    /\ call.deployment = [spec |-> <<>>, status |-> <<>>]
    /\ call.status = "0/1"
    /\ call.tier = "Warning"
    /\ call.priority = 1

\* ------------------------------------------------------------------ C23

\* The aliases of each kind, as the help text and the error message of the
\* command line name the kinds, with their long and plural forms.
Aliases ==
    {<<"pod", "pod">>, <<"pods", "pod">>, <<"po", "pod">>,
     <<"svc", "svc">>, <<"service", "svc">>, <<"services", "svc">>,
     <<"deploy", "deploy">>, <<"deployment", "deploy">>,
     <<"deployments", "deploy">>,
     <<"sts", "sts">>, <<"statefulset", "sts">>, <<"statefulsets", "sts">>,
     <<"ds", "ds">>, <<"daemonset", "ds">>, <<"daemonsets", "ds">>,
     <<"cm", "cm">>, <<"configmap", "cm">>, <<"configmaps", "cm">>,
     <<"secret", "secret">>, <<"secrets", "secret">>,
     <<"ing", "ing">>, <<"ingress", "ing">>, <<"ingresses", "ing">>,
     <<"node", "node">>, <<"nodes", "node">>, <<"no", "node">>,
     <<"ns", "ns">>, <<"namespace", "ns">>, <<"namespaces", "ns">>,
     <<"pvc", "pvc">>, <<"persistentvolumeclaim", "pvc">>,
     <<"persistentvolumeclaims", "pvc">>,
     <<"job", "job">>, <<"jobs", "job">>,
     <<"cj", "cronjob">>, <<"cronjob", "cronjob">>,
     <<"cronjobs", "cronjob">>}

\* The kinds whose alias the text is, whatever the case of its letters.
KindsOfAlias(text) ==
    {a[2] : a \in {b \in Aliases : eq_ignore_ascii_case(b[1], text)}}

\* C23: an alias in any case resolves to its one kind; no resource argument
\* and text that is no alias give no filter, and then the kinds watched
\* are the whole default set.
C23_ResourceFilterResolves ==
    call.op = "resource_filter" =>
        IF call.resource # None /\ KindsOfAlias(call.resource[1]) # {}
        THEN /\ Cardinality(KindsOfAlias(call.resource[1])) = 1
             /\ call.filter # None
             /\ Len(call.filter[1]) = 1
             /\ call.filter[1][1] \in KindsOfAlias(call.resource[1])
             /\ call.kinds = call.filter[1]
        ELSE /\ call.filter = None
             /\ call.kinds = ALL_KINDS

\* "Deployments" was resolved to the one kind deploy.
C23_Witness ==
    /\ call.op = "resource_filter"
    /\ call.resource = <<"Deployments">>
    /\ call.filter = <<(<<"deploy">>)>>
    /\ call.kinds = <<"deploy">>

\* ------------------------------------------------------------------ C24

\* C24 as stated: the default watch set holds every kind of the data model
\* exactly once, PersistentVolume among them, fourteen in all.
C24_AllKindsHasFourteen ==
    (call.op = "resource_filter" /\ call.filter = None) =>
        /\ Len(call.kinds) = 14
        /\ \A k \in ResourceKinds \cup {PersistentVolumeKind} :
               Cardinality({i \in 1..Len(call.kinds) : call.kinds[i] = k}) = 1

\* ------------------------------------------------------------------ C25

\* The sum of f over the sessions that ended.
RECURSIVE SumPast(_, _)
SumPast(f(_), i) ==
    IF i = 0 THEN 0 ELSE f(past[i]) + SumPast(f, i - 1)

\* The coordinator routines started since the process began.
CoordinatorsStarted ==
    LET one(s) == IF s.started THEN 1 ELSE 0
    IN  SumPast(one, Len(past)) + (IF "" \in contexts THEN 1 ELSE 0)

\* The global batches produced since the process began.
GlobalBatches ==
    LET global(s) == s.global
    IN  SumPast(global, Len(past)) + CoordinatorBatches

\* C25: in single-cluster mode, whatever the selector sessions, no second
\* coordinator routine is started and no second global batch is produced
\* in the life of the process.
C25_OneCoordinatorPerProcess ==
    /\ CoordinatorsStarted <= 1
    /\ GlobalBatches <= 1

\* ------------------------------------------------------------------ C26

\* Every item of the sequence is in a batch on the channel.
AllSent(items) ==
    \A k \in 1..Len(items) :
        \E i \in 1..Len(out) : items[k] \in Range(out[i].items)

\* Watcher w of this run has processed its first InitialListComplete.
HasHanded(w) == IF w \in Watchers THEN handed[w] # <<>> ELSE FALSE

\* What it held then is on the channel.
HandedSent(w) == IF w \in Watchers THEN AllSent(HandedItems(w)) ELSE TRUE

\* C26: the items a watcher held at its first InitialListComplete are
\* eventually on the channel, unless the consumer closes it; also when the
\* coordinator's wait had already ended by then.
C26_HandedItemsEventuallySent ==
    \A w \in {""} \X {"pod", "deploy"} :
        HasHanded(w) ~> (~rxOpen \/ HandedSent(w))

\* ------------------------------------------------------------------ C27

\* The watchers of context c that have incremented the counter.
Counted(c) ==
    {w \in WatchersOf(c) : handed[w] # <<>> /\ wpc[w] # "fetch_add"}

\* Watcher w ends its first-completion handler in this step.
EndsFirstCompletion(w) == wpc[w] = "notify" /\ wpc'[w] = "loop"

\* The completion signal of context c fires in this step: the waiting
\* coordinator is woken or the Notify stores a permit.
SignalFires(c) ==
    \/ cpc[c] = "waiting" /\ cpc'[c] = "woken" /\ cpc' # cpc
          /\ \E w \in WatchersOf(c) : EndsFirstCompletion(w)
    \/ ~permit[c] /\ permit'[c]

\* C27: the counter of a run is the number of watchers that completed
\* their first listing, whatever reconnects and later completions they
\* see, and never exceeds K; the values the watchers read back are all
\* different; the signal fires in the step of the watcher that read K, and
\* of no other, with all K watchers counted.
C27_SignalOnceAtK ==
    /\ [](\A c \in contexts :
            /\ done_count[c] = Cardinality(Counted(c))
            /\ done_count[c] <= total_watchers
            /\ \A w \in WatchersOf(c) :
                   wpc[w] = "notify" =>
                       /\ finished[w] \in 1..done_count[c]
                       /\ \A v \in WatchersOf(c) \ {w} :
                              wpc[v] = "notify" => finished[v] # finished[w])
    /\ [][\A c \in contexts :
             /\ SignalFires(c) =>
                    /\ Counted(c) = WatchersOf(c)
                    /\ done_count[c] = total_watchers
                    /\ \E w \in WatchersOf(c) :
                           /\ EndsFirstCompletion(w)
                           /\ finished[w] = total_watchers
             /\ \A w \in WatchersOf(c) :
                    (EndsFirstCompletion(w) /\ finished[w] = total_watchers)
                        => SignalFires(c)]_vars

\* Both watchers of a run completed their first listing, the counter is 2,
\* the coordinator has ended, and one watcher has sent the batch of a later
\* completion.
C27_Witness ==
    /\ total_watchers = 2
    /\ done_count[""] = 2
    /\ cpc[""] = "done"
    /\ \A w \in WatchersOf("") : first_init_done[w]
    /\ \E i \in 1..Len(out) : out[i].by = "InitDone"

\* ------------------------------------------------------------------ C28

\* Watcher w has appended to the shared buffer and has not yet checked the
\* count it read back.
InFirstCompletion(w) == wpc[w] \in {"fetch_add", "notify"}

\* The coordinator of c is woken by the completion signal in this step: a
\* watcher's notify_one wakes it as it waits, or it takes the stored permit
\* at its first poll.
WokenBySignal(c) ==
    \/ /\ cpc[c] = "waiting" /\ cpc'[c] = "woken"
       /\ \E w \in WatchersOf(c) : EndsFirstCompletion(w)
    \/ /\ cpc[c] = "spawned" /\ cpc'[c] = "woken"
       /\ permit[c] /\ ~permit'[c]

\* C28 as stated: from a watcher's append to its count check no step of
\* another watcher or of the coordinator changes the shared buffer, the
\* counter, the signal or the coordinator's place.
C28_OneCriticalSection ==
    [][\A c \in contexts : \A w \in WatchersOf(c) :
          (InFirstCompletion(w) /\ wpc'[w] = wpc[w])
              => /\ global_init'[c] = global_init[c]
                 /\ done_count'[c] = done_count[c]
                 /\ permit'[c] = permit[c]
                 /\ cpc'[c] = cpc[c]]_vars

\* C28: a watcher appends to the shared buffer, under the lock, before it
\* increments the counter, so every counted watcher has handed its listing
\* over and nothing but the coordinator's drain takes it out again;
\* whenever the coordinator is woken by the completion signal the shared
\* buffer holds the first-listing items of all K watchers.
C28_SignalFindsAllListings ==
    /\ [](\A c \in contexts : \A w \in WatchersOf(c) :
            (w \in Counted(c) \/ InFirstCompletion(w)) => handed[w] # <<>>)
    /\ [][\A c \in contexts :
             /\ WokenBySignal(c) =>
                    /\ \A w \in WatchersOf(c) : handed[w] # <<>>
                    /\ SameBag(global_init'[c],
                               ConcatHanded(WatchersOf(c)))
             /\ ~CoordSendStep(c)
                    => \A k \in 1..Len(global_init[c]) :
                           global_init[c][k] \in Range(global_init'[c])]_vars

\* The coordinator of a run of two watchers has been woken by the signal:
\* both watchers are counted and back in their loops, no permit is left,
\* and the shared buffer holds what both handed over.
C28_Witness ==
    /\ total_watchers = 2
    /\ cpc[""] = "woken"
    /\ ~permit[""]
    /\ \A w \in WatchersOf("") :
           handed[w] # <<>> /\ HandedItems(w) # <<>> /\ wpc[w] = "loop"
    /\ SameBag(global_init[""], ConcatHanded(WatchersOf("")))

\* ------------------------------------------------------------------ C29

\* C29: a signal fired before the coordinator has started to wait is kept:
\* the watcher that read K leaves a permit, the coordinator's first poll
\* takes the permit and goes on to the drain at once, and the coordinator
\* never waits for the timeout while a permit is there.
C29_SignalNeverLost ==
    /\ [](\A c \in contexts : ~(cpc[c] = "waiting" /\ permit[c]))
    /\ [][\A c \in contexts :
             /\ (cpc[c] = "spawned" /\ \E w \in WatchersOf(c) :
                     EndsFirstCompletion(w) /\ finished[w] = total_watchers)
                    => permit'[c] /\ cpc'[c] = "spawned"
             /\ (cpc[c] = "spawned" /\ permit[c] /\ cpc'[c] # "spawned")
                    => cpc'[c] = "woken" /\ ~permit'[c]
             /\ (cpc[c] = "spawned" /\ permit[c])
                    => permit'[c] \/ cpc'[c] = "woken"]_vars

\* Both watchers of a run have completed their first listing and the last
\* of them has signalled while the coordinator has not yet polled: the
\* Notify holds the permit.
C29_Witness ==
    /\ total_watchers = 2
    /\ cpc[""] = "spawned"
    /\ permit[""]
    /\ done_count[""] = 2
    /\ \A w \in WatchersOf("") : first_init_done[w]

\* ------------------------------------------------------------------ C30

\* The items watcher w makes of the objects its stream listed.
ItemsOf(w, objs) ==
    [i \in 1..Len(objs) |-> make_item(objs[i], w[2], FALSE, w[1])]

\* Watcher w hands its listing over to the shared buffer in this step.
HandsOver(w) == handed[w] = <<>> /\ handed'[w] # <<>>

\* C30: while a listing cycle is under way the watcher is buffering and its
\* local buffer holds exactly the objects listed since the cycle's Init;
\* what it hands over at its first InitialListComplete, and what it sends
\* at a later one, is exactly that; it hands over once, and the shared
\* buffer grows by hand-overs only.
C30_HandsOverLatestListing ==
    /\ [](\A w \in Watchers :
            (wpc[w] = "loop" /\ listing[w].open)
                => /\ in_init[w]
                   /\ init_batch[w] = ItemsOf(w, listing[w].objs))
    /\ [][\A w \in Watchers :
             /\ HandsOver(w)
                    => /\ listing[w].open
                       /\ handed'[w] = <<ItemsOf(w, listing[w].objs)>>
                       /\ global_init'[w[1]]
                             = global_init[w[1]]
                                   \o ItemsOf(w, listing[w].objs)
             /\ handed[w] # <<>> => handed'[w] = handed[w]
             /\ (/\ Len(out') = Len(out) + 1
                 /\ out'[Len(out')].by = "InitDone"
                 /\ out'[Len(out')].ctx = w[1]
                 /\ out'[Len(out')].items[1].kind = w[2])
                    => /\ handed[w] # <<>>
                       /\ SameBag(out'[Len(out')].items,
                                  ItemsOf(w, listing[w].objs))
             /\ (global_init'[w[1]] # global_init[w[1]]
                    /\ ~CoordSendStep(w[1]))
                    => \E v \in WatchersOf(w[1]) : HandsOver(v)]_vars

\* The stream of a watcher that has not completed a listing yet began its
\* listing anew after it had listed objects: the Init emptied the local
\* buffer and the watcher is buffering.
C30_Witness ==
    \E w \in Watchers :
        /\ listing[w].dropped
        /\ handed[w] = <<>>
        /\ ~first_init_done[w]
        /\ init_batch[w] = <<>>
        /\ in_init[w]

\* ------------------------------------------------------------------ C31

\* By the events processed: watcher w is in a listing (an Init with no
\* InitDone since, or no Init yet).
BufferingByEvents(w) == wpc[w] = "loop" /\ listing[w].open

\* By the events processed: an InitDone was processed and no Init since.
StreamingByEvents(w) == wpc[w] = "loop" /\ ~listing[w].open

\* C31: an InitApply of a buffering watcher appends the item to the local
\* buffer and sends nothing; an InitApply of a streaming watcher, with the
\* consumer open, sends the item as a batch of one and leaves the buffer.
C31_InitApplyBuffersOrForwards ==
    [][\A w \in Watchers : \A r \in RawObjects(w[2]) :
          OnInitApply(w, r) =>
              LET item == make_item(r, w[2], FALSE, w[1])
              IN  /\ BufferingByEvents(w)
                     => /\ init_batch'[w] = Append(init_batch[w], item)
                        /\ out' = out
                  /\ (StreamingByEvents(w) /\ rxOpen)
                     => /\ out' = Append(out,
                                         Batch("InitApply", w[1], <<item>>))
                        /\ init_batch'[w] = init_batch[w]
                        /\ in_init'[w] = in_init[w]]_vars

\* A watcher buffered a listing, handed it over, and later forwarded an
\* InitApply directly.
C31_Witness ==
    \E w \in Watchers :
        /\ handed[w] # <<>>
        /\ handed[w][1] # <<>>
        /\ \E i \in 1..Len(out) :
               /\ out[i].by = "InitApply"
               /\ out[i].ctx = w[1]
               /\ Len(out[i].items) = 1
               /\ out[i].items[1].kind = w[2]

\* ------------------------------------------------------------------ C32

\* C32: a watcher between two handlers takes an Apply whatever its flags
\* and buffer hold; with the consumer open the Apply puts one batch of the
\* one item made of its object on the channel and leaves the local buffer,
\* in_init, first_init_done and the coordinator's state as they were.
C32_ApplySendsAtOnce ==
    /\ [](\A w \in Watchers : \A r \in RawObjects(w[2]) :
            (wpc[w] = "loop" /\ (rxOpen => WatcherBatches < MaxOut))
                => ENABLED OnApply(w, r))
    /\ [][\A w \in Watchers : \A r \in RawObjects(w[2]) :
             (OnApply(w, r) /\ rxOpen) =>
                 /\ out' = Append(out,
                                  Batch("Apply", w[1],
                                        <<make_item(r, w[2], FALSE, w[1])>>))
                 /\ init_batch' = init_batch
                 /\ in_init' = in_init
                 /\ first_init_done' = first_init_done
                 /\ UNCHANGED coordVars]_vars

\* An Apply of a watcher reached the channel while that watcher was still
\* buffering its first listing and the coordinator had sent nothing.
C32_Witness ==
    \E w \in Watchers :
        /\ in_init[w]
        /\ ~first_init_done[w]
        /\ handed[w] = <<>>
        /\ init_batch[w] # <<>>
        /\ cpc[w[1]] # "done"
        /\ \E i \in 1..Len(out) :
               /\ out[i].by = "Apply"
               /\ out[i].ctx = w[1]
               /\ Len(out[i].items) = 1
               /\ out[i].items[1].kind = w[2]

\* ------------------------------------------------------------------ C33

\* C33: with the consumer open a Delete puts one batch of one item on the
\* channel: the item has the watcher's kind and cluster label, the object's
\* namespace and name, and the status "[DELETED]" whatever the object's
\* own status is; it classifies as Unknown, priority 1.  The step changes
\* nothing but the channel, and the batches of Delete events are the only
\* ones that hold such an item.
C33_DeleteSendsDeletedItem ==
    /\ [](\A i \in 1..Len(out) :
            out[i].by = "Delete"
                <=> \E j \in 1..Len(out[i].items) :
                       out[i].items[j].status = "[DELETED]")
    /\ [][\A w \in Watchers : \A r \in RawObjects(w[2]) :
             (OnDelete(w, r) /\ rxOpen) =>
                 /\ Len(out') = Len(out) + 1
                 /\ SubSeq(out', 1, Len(out)) = out
                 /\ LET b == out'[Len(out')]
                    IN  /\ b.by = "Delete"
                        /\ b.ctx = w[1]
                        /\ Len(b.items) = 1
                        /\ b.items[1].kind = w[2]
                        /\ b.items[1].namespace = r.namespace[1]
                        /\ b.items[1].name = r.name
                        /\ b.items[1].context = w[1]
                        /\ b.items[1].status = "[DELETED]"
                        /\ b.items[1].status # r.status
                        /\ classify(b.items[1].status) = "Unknown"
                        /\ status_priority(b.items[1].status) = 1
                 /\ UNCHANGED <<coordVars, wpc, init_batch, in_init,
                                first_init_done, finished, handed, result,
                                returned>>]_vars

\* The deletion of a pod whose own status is Critical is on the channel.
C33_Witness ==
    \E i \in 1..Len(out) :
        /\ out[i].by = "Delete"
        /\ out[i].items[1].name = "web-2"
        /\ out[i].items[1].namespace = "default"
        /\ out[i].items[1].status = "[DELETED]"
        /\ classify("CrashLoopBackOff") = "Critical"

\* ------------------------------------------------------------------ C34

\* C34: a stream error writes its line and nothing else: it places nothing
\* on the channel, leaves the watcher's buffer, in_init, first_init_done and
\* listing as they were and the watcher in its loop, where it can take an
\* Init; a watcher goes back to buffering, and a new listing begins, in an
\* Init step only.
C34_StreamErrorNotFatal ==
    /\ [](\A w \in Watchers : wpc[w] = "loop" => ENABLED OnInit(w))
    /\ [][\A w \in Watchers :
             /\ OnErr(w)
                    => /\ watch_errors' = watch_errors + 1
                       /\ out' = out
                       /\ init_batch' = init_batch
                       /\ in_init' = in_init
                       /\ first_init_done' = first_init_done
                       /\ listing' = listing
                       /\ wpc'[w] = "loop"
                       /\ result'[w] = "running"
                       /\ UNCHANGED coordVars
             /\ (~in_init[w] /\ in_init'[w]) => OnInit(w)
             /\ (listing'[w] # listing[w] /\ listing'[w].open
                    /\ listing'[w].objs = <<>>) => OnInit(w)]_vars

\* A stream error was met in the run, and a watcher in its loop holds the
\* objects of the listing under way.
C34_Witness ==
    /\ watch_errors = 1
    /\ rxOpen
    /\ \E w \in Watchers :
           /\ wpc[w] = "loop"
           /\ in_init[w]
           /\ listing[w].open
           /\ init_batch[w] # <<>>

\* ------------------------------------------------------------------ C35

\* C35: once the consumer has dropped the receiver, every watch task ends
\* and watch_resources returns.
C35_ClosedChannelEndsTasks ==
    (~rxOpen) ~> (/\ \A w \in Watchers : wpc[w] = "exited"
                  /\ \A c \in contexts : returned[c])

\* ------------------------------------------------------------------ C36

\* Init container i of the list reports a waiting reason.
InitWaitsWithReason(ics, i) ==
    /\ ics[i].state # None
    /\ ics[i].state[1].waiting # None
    /\ ics[i].state[1].waiting[1].reason # None

\* The init containers of the list that ended with exit code 0.
EndedWell(ics) ==
    {i \in 1..Len(ics) :
        /\ ics[i].state # None
        /\ ics[i].state[1].terminated # None
        /\ ics[i].state[1].terminated[1].exit_code = 0}

\* "Init:<done>/<total>"
InitProgress(done, total) ==
    "Init:" \o Format(done) \o "/" \o Format(total)

\* The init containers of the pod of the call, and whether a rule before
\* the init containers' gives the pod its status.
InitStatusesOfCall ==
    IF call.pod.status = None
           \/ call.pod.status[1].init_container_statuses = None
    THEN <<>>
    ELSE call.pod.status[1].init_container_statuses[1]

EarlierRuleFires ==
    \/ call.pod.deletion_timestamp # None
    \/ call.pod.status = None
    \/ /\ call.pod.status[1].container_statuses # None
       /\ Deciding(call.pod.status[1].container_statuses[1]) # {}

\* C36: when no earlier rule gives the status, the first init container
\* with a waiting reason gives "Init:<reason>"; without one, done < total
\* gives "Init:<done>/<total>", done counting the init containers that
\* ended with exit code 0, and done = total gives the phase ("Unknown"
\* without one).  The progress form is given in that case only, and never
\* with done = total.
C36_InitProgressOnlyWhileUnfinished ==
    call.op = "pod_status" =>
        LET ics == InitStatusesOfCall
            waits == {i \in 1..Len(ics) : InitWaitsWithReason(ics, i)}
            done == Cardinality(EndedWell(ics))
            total == Len(ics)
        IN  /\ (~EarlierRuleFires /\ waits # {})
                   => LET i == CHOOSE j \in waits : \A k \in waits : j <= k
                      IN  call.status
                            = "Init:" \o ics[i].state[1].waiting[1].reason[1]
            /\ (~EarlierRuleFires /\ waits = {} /\ done < total)
                   => call.status = InitProgress(done, total)
            /\ (~EarlierRuleFires /\ waits = {} /\ done = total)
                   => call.status = unwrap_or(call.pod.status[1].phase,
                                              "Unknown")
            /\ (\E d, t \in 0..MaxContainers :
                    call.status = InitProgress(d, t))
                   => /\ ~EarlierRuleFires
                      /\ waits = {}
                      /\ done < total
                      /\ call.status = InitProgress(done, total)
            /\ \A n \in 0..MaxContainers :
                   call.status # InitProgress(n, n)

\* A pod whose first init container ended with exit code 0 and whose second
\* one runs was given "Init:1/2".
C36_Witness ==
    /\ call.op = "pod_status"
    /\ ~EarlierRuleFires
    /\ InitStatusesOfCall
          = <<[state |-> Terminated(0, Some("Completed"))],
              [state |-> Running]>>
    /\ call.status = "Init:1/2"

\* ------------------------------------------------------------------ C37

\* The kinds an action runs kubectl for.
EligibleKinds(action) ==
    CASE action = "action_logs" -> {"pod"}
      [] action = "action_exec" -> {"pod"}
      [] action = "action_portforward" -> {"pod", "svc"}
      [] action = "action_rollout_restart" -> {"deploy", "sts", "ds"}

KubectlActions ==
    {"action_logs", "action_exec", "action_portforward",
     "action_rollout_restart"}

\* The items of the call that kubectl was run for, in the order of the
\* runs, each once.
RECURSIVE ItemsRun(_, _)
ItemsRun(commands, i) ==
    IF i > Len(commands) THEN <<>>
    ELSE IF i > 1 /\ commands[i].item = commands[i - 1].item
    THEN ItemsRun(commands, i + 1)
    ELSE <<commands[i].item>> \o ItemsRun(commands, i + 1)

\* The eligible items of a selection, in the order of the selection.
RECURSIVE EligibleItems(_, _, _)
EligibleItems(items, i, kindSet) ==
    IF i > Len(items) THEN <<>>
    ELSE (IF items[i].kind \in kindSet THEN <<i>> ELSE <<>>)
             \o EligibleItems(items, i + 1, kindSet)

\* C37: an action runs kubectl for items of its eligible kinds only, and
\* every command it runs names its item; a selection without an eligible
\* item runs nothing and returns Ok; when the action returns Ok after
\* running kubectl, or is one of the two that take a whole selection and
\* returns Ok, kubectl was run for every eligible item in the order of the
\* selection, whatever ineligible items stand between them.
C37_KubectlForEligibleKindsOnly ==
    call.op \in KubectlActions =>
        LET eligible == EligibleKinds(call.op)
            commands == call.returns.commands
            ran == ItemsRun(commands, 1)
        IN  /\ \A i \in 1..Len(commands) :
                   /\ call.items[commands[i].item].kind \in eligible
                   /\ \E j \in 1..Len(commands[i].line) :
                          \/ commands[i].line[j]
                                = call.items[commands[i].item].name
                          \/ commands[i].line[j]
                                = call.items[commands[i].item].kind \o "/"
                                    \o call.items[commands[i].item].name
            /\ (\A i \in 1..Len(call.items) :
                    call.items[i].kind \notin eligible)
                   => call.returns = Ran("Ok", <<>>)
            /\ (/\ call.returns.result = "Ok"
                /\ \/ commands # <<>>
                   \/ call.op \in {"action_logs", "action_rollout_restart"})
                   => ran = EligibleItems(call.items, 1, eligible)

\* A rollout restart of a selection that holds a pod between a deployment
\* and a daemon set ran kubectl for the first and the third item.
C37_Witness ==
    /\ call.op = "action_rollout_restart"
    /\ Len(call.items) = 3
    /\ call.items[1].kind = "deploy"
    /\ call.items[2].kind = "pod"
    /\ call.items[3].kind = "ds"
    /\ call.returns.result = "Ok"
    /\ ItemsRun(call.returns.commands, 1) = <<1, 3>>
    /\ Len(call.returns.commands) = 4

\* ------------------------------------------------------------------ C38

\* The modes of the preview: describe, yaml, logs.
PreviewModes == {0, 1, 2}

====
